---------------------------- MODULE Spec2Model ----------------------------
(***************************************************************************)
(* Model of the fulfillment-center capacity pipeline:                      *)
(*   src/src/generate_data.py    Demand Generator and Step Simulator       *)
(*   src/src/capacity.py         Metrics Aggregator                        *)
(*   src/src/bottleneck.py       Bottleneck Detector                       *)
(*   src/src/recommendations.py  Staffing Recommender                      *)
(*                                                                         *)
(* Numbers.  Unit quantities (demand, capacity, processed, backlog) are    *)
(* sampled on the non-negative integer grid.  Every quotient the code      *)
(* forms has the shape n / (a + b*eps) with eps = 1e-6, and is kept        *)
(* exactly as the record [n, a, b]; comparisons cross-multiply, so no      *)
(* rounding is introduced by the model.  IEEE rounding of the Python       *)
(* floats is not modelled.                                                 *)
(*                                                                         *)
(* Tables.  A DataFrame is a sequence of row records; row order is the     *)
(* DataFrame's row order.  A timestamp is the hour index 1, 2, ...         *)
(***************************************************************************)
EXTENDS Integers, Sequences, FiniteSets, TLC

VARIABLES
    pc,            \* position of the pipeline run / of the table experiment
    steps,         \* config['steps']: the ordered step list of this run
    num_hours,     \* len(demand_df): hours in the horizon
    demand_df,     \* output of generate_hourly_demand: demand per hour
    all_data,      \* generate_fc_data.all_data: one table per simulated step
    sim_trace,     \* per step, the loop locals backlog_in / total_demand
    raw,           \* result of generate_fc_data (sorted by timestamp, step)
    hourly,        \* compute_capacity_metrics()['hourly']
    svc,           \* output of compute_service_level (before aggregation)
    bottlenecks,   \* output of detect_bottlenecks
    staffing,      \* output of compute_staffing_recommendations
    tbl,           \* an externally supplied table (table experiments)
    params,        \* threshold_util, service_target, uph_by_step, wage
    rng,           \* per process: the global numpy stream [seed, pos]
    hashseed,      \* per process: the interpreter's string-hash seed
    wk,            \* per worker (thread/run): its position, draws and output
    frames,        \* per called function: its argument before and after the
                   \* call, and the table it returned
    files          \* the project directory: path -> content of each file
                   \* that exists

vars == <<pc, steps, num_hours, demand_df, all_data, sim_trace, raw, hourly,
          svc, bottlenecks, staffing, tbl, params, rng, hashseed, wk,
          frames, files>>

(***************************************************************************)
(* Bounds of the model.                                                    *)
(***************************************************************************)
NumHours == 3      \* longest horizon simulated
MaxUnits == 2      \* largest demand / capacity value drawn per hour
MaxRows  == 4      \* largest table (steps x hours) simulated

(***************************************************************************)
(* Exact arithmetic with the epsilon guard.                                *)
(***************************************************************************)
EpsInv == 1000000                     \* 1 / 1e-6

Min(x, y) == IF x <= y THEN x ELSE y
Max(x, y) == IF x >= y THEN x ELSE y

\* The number n / (a + b*eps); a + b*eps > 0 unless stated.
Q(n, a, b) == [n |-> n, a |-> a, b |-> b]
QInt(k) == Q(k, 1, 0)
\* denominator scaled by 1/eps
QDen(x) == x.a * EpsInv + x.b
QLeq(x, y) == (x.n * y.a - y.n * x.a) * EpsInv + (x.n * y.b - y.n * x.b) <= 0
QLt(x, y) == ~QLeq(y, x)
QEq(x, y) == QLeq(x, y) /\ QLeq(y, x)
\* numpy / pandas clip(0, 1)
QClip01(x) == IF QLeq(x, QInt(0)) THEN QInt(0)
              ELSE IF QLeq(QInt(1), x) THEN QInt(1) ELSE x
\* numpy ceil(...).astype(int)
QCeil(x) == -((-(x.n * EpsInv)) \div QDen(x))


(***************************************************************************)
(* Tables.                                                                 *)
(***************************************************************************)
\* Python's ordering of the step names (str comparison), as a rank.
StepOrd(s) == CASE s = "pack" -> 1 [] s = "pick" -> 2
                [] s = "receive" -> 3 [] OTHER -> 4

RECURSIVE SumSeq(_)
SumSeq(s) == IF s = <<>> THEN 0 ELSE s[1] + SumSeq(Tail(s))

RECURSIVE Concat(_)
\* pd.concat(all_data, ignore_index=True)
Concat(tables) == IF tables = <<>> THEN <<>>
                  ELSE tables[1] \o Concat(Tail(tables))

KeyTimestampStep(r) == r.timestamp * 100 + StepOrd(r.step)
KeyStepTimestamp(r) == StepOrd(r.step) * 100 + r.timestamp

\* The sort key of a row for the column list by.
SortKey(by, r) ==
    IF by = "step,timestamp" THEN KeyStepTimestamp(r) ELSE KeyTimestampStep(r)

\* Number of rows that sort before row i (ties keep their input order).
RowsBefore(t, i, by) ==
    Cardinality({j \in 1..Len(t) :
                    \/ SortKey(by, t[j]) < SortKey(by, t[i])
                    \/ (SortKey(by, t[j]) = SortKey(by, t[i]) /\ j < i)})

\* df.sort_values([...]).reset_index(drop=True)
SortValues(t, by) ==
    [k \in 1..Len(t) |->
        t[CHOOSE i \in 1..Len(t) : RowsBefore(t, i, by) = k - 1]]

\* Index of the previous row of the same step, 0 when there is none.
PrevInGroup(t, i) ==
    LET earlier == {j \in 1..(i - 1) : t[j].step = t[i].step}
    IN  IF earlier = {} THEN 0
        ELSE CHOOSE j \in earlier : \A k \in earlier : k <= j

\* Mutant of ShiftBacklog: the shift ignores the step grouping.
ShiftBacklogUngrouped(t, i) == IF i = 1 THEN 0 ELSE t[i - 1].backlog_units

\* df.groupby('step')['backlog_units'].shift(1).fillna(0), at row i
ShiftBacklog(t, i) ==
    IF PrevInGroup(t, i) = 0 THEN 0
    ELSE t[PrevInGroup(t, i)].backlog_units

(***************************************************************************)
(* Step Simulator: generate_step_data.                                     *)
(***************************************************************************)
\* lag = 1 if step == 'pick' else (2 if step == 'pack' else 3)
Lag(step) == IF step = "pick" THEN 1 ELSE IF step = "pack" THEN 2 ELSE 3

\* demand * (1 - 0.05 * lag), in twentieths of a unit
LaggedDemand20(step, d) == d * (20 - Lag(step))

\* The step_demand arrays lines 115-122 can produce on the integer grid.
\* 'receive' takes the raw demand.  Otherwise the lagged demand gets
\* N(0, 0.05 * lagged) noise and is floored at 0: any value >= 0 when the
\* lagged demand is positive, exactly 0 when it is 0 (the noise scale is 0).
StepDemandDraws(step, demand) ==
    IF step = "receive" THEN {demand}
    ELSE {sd \in [1..Len(demand) -> 0..MaxUnits] :
             \A i \in 1..Len(demand) :
                 LaggedDemand20(step, demand[i]) = 0 => sd[i] = 0}

\* The capacity arrays lines 125-131 can produce on the integer grid:
\* base * (1 + noise), reduced where downtime fires, floored at 0.  With a
\* zero base (mean step demand 0) every hour's capacity is 0.
CapacityDraws(step_demand) ==
    IF SumSeq(step_demand) = 0 THEN {[i \in 1..Len(step_demand) |-> 0]}
    ELSE [1..Len(step_demand) -> 0..MaxUnits]

\* Mutant of BacklogIn: the carried backlog is dropped.
BacklogInNoCarry(acc, i) == 0

\* backlog_in = backlog_units[i-1] if i > 0 else 0
BacklogIn(acc, i) == IF i > 1 THEN acc[i - 1].backlog_units ELSE 0

\* Mutant of ProcessWhatWeCan: the full capacity is always booked.
ProcessFullCapacity(total_demand, capacity) == capacity

\* Mutant of ProcessWhatWeCan: only half of the hour's capacity is used.
ProcessHalfCapacity(total_demand, capacity) ==
    Min(total_demand, capacity \div 2)

\* processed = min(total_demand, capacity_units[i])
ProcessWhatWeCan(total_demand, capacity) == Min(total_demand, capacity)

\* Mutant of UpdateBacklog: at most one unit is carried over.
UpdateBacklogCapped(total_demand, processed) ==
    Min(1, Max(0, total_demand - processed))

\* backlog_units[i] = max(0, total_demand - processed)
UpdateBacklog(total_demand, processed) == Max(0, total_demand - processed)

RECURSIVE BacklogScan(_, _, _, _)
\* for i in range(len(df)): ...   (i counts from 1 here)
BacklogScan(step_demand, capacity_units, i, acc) ==
    IF i > Len(step_demand) THEN acc
    ELSE LET demand_in    == step_demand[i]
             backlog_in   == BacklogIn(acc, i)
             total_demand == demand_in + backlog_in
             processed    == ProcessWhatWeCan(total_demand, capacity_units[i])
         IN  BacklogScan(step_demand, capacity_units, i + 1,
                 Append(acc, [backlog_in      |-> backlog_in,
                              total_demand    |-> total_demand,
                              processed_units |-> processed,
                              backlog_units   |->
                                  UpdateBacklog(total_demand, processed)]))

\* Mutant of SimUtilization: no epsilon in the denominator.
SimUtilizationNoEpsilon(processed, capacity) ==
    IF capacity = 0 THEN QInt(0) ELSE QClip01(Q(processed, capacity, 0))

\* utilization = np.clip(processed_units / (capacity_units + 1e-6), 0, 1)
SimUtilization(processed, capacity) == QClip01(Q(processed, capacity, 1))

\* labor_hours_used = processed_units / (uph + 1e-6)
LaborHoursUsed(processed, uph) == Q(processed, uph, 1)

\* Mutant of HeadcountUsed: one more head than the labor hours need.
HeadcountUsedPlusOne(processed, uph) ==
    QCeil(Q(processed, uph, 1)) + 1

\* headcount_used = np.ceil(labor_hours_used).astype(int)
HeadcountUsed(processed, uph) == QCeil(LaborHoursUsed(processed, uph))

\* The table generate_step_data returns, given the arrays its draws produced.
StepTable(step, uph, step_demand, capacity_units) ==
    LET scan == BacklogScan(step_demand, capacity_units, 1, <<>>)
    IN  [i \in 1..Len(step_demand) |->
            [timestamp        |-> i,
             step             |-> step,
             demand_units     |-> step_demand[i],
             capacity_units   |-> capacity_units[i],
             processed_units  |-> scan[i].processed_units,
             backlog_units    |-> scan[i].backlog_units,
             utilization      |->
                 SimUtilization(scan[i].processed_units, capacity_units[i]),
             labor_hours_used |->
                 LaborHoursUsed(scan[i].processed_units, uph),
             headcount_used   |->
                 HeadcountUsed(scan[i].processed_units, uph)]]

\* The loop's locals, kept to compare later recomputations against.
StepTrace(step_demand, capacity_units) ==
    LET scan == BacklogScan(step_demand, capacity_units, 1, <<>>)
    IN  [i \in 1..Len(step_demand) |->
            [backlog_in   |-> scan[i].backlog_in,
             total_demand |-> scan[i].total_demand]]

(***************************************************************************)
(* Metrics Aggregator: capacity.py.                                        *)
(***************************************************************************)
\* Mutant of Utilization: a percentage, and no clip.
UtilizationPercent(processed, capacity) == Q(100 * processed, capacity, 1)

\* df['utilization'] = (processed / (capacity + 1e-6)).clip(0, 1)
Utilization(processed, capacity) == QClip01(Q(processed, capacity, 1))

\* Mutant of compute_utilization: the hour's backlog is also folded into its
\* demand column.
FoldBacklogIntoDemand(df) ==
    [i \in 1..Len(df) |->
        [df[i] EXCEPT !.utilization =
                          Utilization(df[i].processed_units,
                                      df[i].capacity_units),
                      !.demand_units = @ + df[i].backlog_units]]

\* Mutant of compute_utilization: the supplied column is kept.
KeepSuppliedUtilization(df) == df

compute_utilization(df) ==
    [i \in 1..Len(df) |->
        [df[i] EXCEPT !.utilization =
            Utilization(df[i].processed_units, df[i].capacity_units)]]

\* processed / (total_demand + 1e-6).clip(0, 1): the clip is applied to the
\* denominator, as the parentheses of line 74 place it.  A denominator
\* clipped to 0 (total_demand + eps <= 0) does not occur for demand >= 0.
ServiceLevelHourly(processed, total_demand) ==
    LET den == total_demand * EpsInv + 1
    IN  IF den >= EpsInv THEN Q(processed, 1, 0)
        ELSE IF den <= 0 THEN Q(processed, 0, 0)
        ELSE Q(processed, total_demand, 1)

\* Mutant of ThroughputLoss: half of the unserved units, rounded down.
ThroughputLossHalved(total_demand, processed) ==
    Max(0, total_demand - processed) \div 2

\* (total_demand - processed).clip(0, None)
ThroughputLoss(total_demand, processed) == Max(0, total_demand - processed)

compute_service_level(df) ==
    LET sorted == SortValues(df, "step,timestamp")
    IN  [i \in 1..Len(sorted) |->
            LET backlog_in   == ShiftBacklog(sorted, i)
                total_demand == sorted[i].demand_units + backlog_in
            IN  [timestamp        |-> sorted[i].timestamp,
                 step             |-> sorted[i].step,
                 demand_units     |-> sorted[i].demand_units,
                 capacity_units   |-> sorted[i].capacity_units,
                 processed_units  |-> sorted[i].processed_units,
                 backlog_units    |-> sorted[i].backlog_units,
                 utilization      |-> sorted[i].utilization,
                 labor_hours_used |-> sorted[i].labor_hours_used,
                 headcount_used   |-> sorted[i].headcount_used,
                 backlog_in       |-> backlog_in,
                 total_demand     |-> total_demand,
                 service_level_hourly |->
                     ServiceLevelHourly(sorted[i].processed_units,
                                        total_demand),
                 throughput_loss_units |->
                     ThroughputLoss(total_demand,
                                    sorted[i].processed_units)]]

\* The rows of one (timestamp, step) group, in table order.
GroupRows(df, ts, st) ==
    SelectSeq(df, LAMBDA r : r.timestamp = ts /\ r.step = st)

\* Column c of a sequence of rows.
Column(rows, c) == [i \in 1..Len(rows) |-> rows[i][c]]

\* Mutant of AggSum: the group's first value instead of its sum.
AggFirst(rows, c) == rows[1][c]

\* 'sum' of an integer column
AggSum(rows, c) == SumSeq(Column(rows, c))

\* 'mean' of a column.  Every table of the model holds each (timestamp, step)
\* once, so a group is one row and its mean is that row's value.
AggMean(rows, c) == rows[1][c]

\* 'sum' of a quotient column, for the same one-row groups
AggSumQ(rows, c) == rows[1][c]

\* One output row per (timestamp, step) group, in key order (groupby sorts).
aggregate_hourly_metrics(df) ==
    LET firsts == SelectSeq([i \in 1..Len(df) |-> [idx |-> i, row |-> df[i]]],
                     LAMBDA e : \A j \in 1..(e.idx - 1) :
                         \/ df[j].timestamp # e.row.timestamp
                         \/ df[j].step # e.row.step)
        keys   == SortValues([i \in 1..Len(firsts) |-> firsts[i].row],
                             "timestamp,step")
    IN  [k \in 1..Len(keys) |->
            LET g == GroupRows(df, keys[k].timestamp, keys[k].step)
            IN  [timestamp        |-> keys[k].timestamp,
                 step             |-> keys[k].step,
                 demand_units     |-> AggSum(g, "demand_units"),
                 capacity_units   |-> AggSum(g, "capacity_units"),
                 processed_units  |-> AggSum(g, "processed_units"),
                 backlog_units    |-> AggMean(g, "backlog_units"),
                 utilization      |-> AggMean(g, "utilization"),
                 service_level_hourly  |-> AggMean(g, "service_level_hourly"),
                 throughput_loss_units |-> AggSum(g, "throughput_loss_units"),
                 labor_hours_used |-> AggSumQ(g, "labor_hours_used"),
                 headcount_used   |-> AggSum(g, "headcount_used")]]

\* Hours in a calendar day: for hour in range(24)
HoursPerDay == 24

\* df['date'] = df['timestamp'].dt.date, as a day index (preprocess.py:75)
DateOf(ts) == ((ts - 1) \div HoursPerDay) + 1

\* The rows of one (date, step) group, in table order.
GroupRowsDaily(df, date, st) ==
    SelectSeq(df, LAMBDA r : DateOf(r.timestamp) = date /\ r.step = st)

\* The rows of one date group, in table order.
GroupRowsSite(df, date) ==
    SelectSeq(df, LAMBDA r : DateOf(r.timestamp) = date)

\* One output row per (date, step) group, in key order.  The integer 'sum'
\* columns are modelled.
aggregate_daily_metrics(df) ==
    LET firsts == SelectSeq([i \in 1..Len(df) |-> [idx |-> i, row |-> df[i]]],
                     LAMBDA e : \A j \in 1..(e.idx - 1) :
                         \/ DateOf(df[j].timestamp) # DateOf(e.row.timestamp)
                         \/ df[j].step # e.row.step)
        keys   == SortValues([i \in 1..Len(firsts) |->
                                 [timestamp |-> DateOf(firsts[i].row.timestamp),
                                  step |-> firsts[i].row.step]],
                             "timestamp,step")
    IN  [k \in 1..Len(keys) |->
            LET g == GroupRowsDaily(df, keys[k].timestamp, keys[k].step)
            IN  [date             |-> keys[k].timestamp,
                 step             |-> keys[k].step,
                 demand_units     |-> AggSum(g, "demand_units"),
                 capacity_units   |-> AggSum(g, "capacity_units"),
                 processed_units  |-> AggSum(g, "processed_units"),
                 throughput_loss_units |-> AggSum(g, "throughput_loss_units"),
                 headcount_used   |-> AggSum(g, "headcount_used")]]

\* One output row per date group, in date order.  The integer 'sum' columns
\* are modelled.
aggregate_site_daily_metrics(df) ==
    LET firsts == SelectSeq([i \in 1..Len(df) |-> [idx |-> i, row |-> df[i]]],
                     LAMBDA e : \A j \in 1..(e.idx - 1) :
                         DateOf(df[j].timestamp) # DateOf(e.row.timestamp))
        keys   == SortValues([i \in 1..Len(firsts) |->
                                 [timestamp |-> DateOf(firsts[i].row.timestamp),
                                  step |-> "site"]],
                             "timestamp,step")
    IN  [k \in 1..Len(keys) |->
            LET g == GroupRowsSite(df, keys[k].timestamp)
            IN  [date             |-> keys[k].timestamp,
                 demand_units     |-> AggSum(g, "demand_units"),
                 capacity_units   |-> AggSum(g, "capacity_units"),
                 processed_units  |-> AggSum(g, "processed_units"),
                 throughput_loss_units |-> AggSum(g, "throughput_loss_units"),
                 headcount_used   |-> AggSum(g, "headcount_used")]]

(***************************************************************************)
(* Bottleneck Detector: bottleneck.py.                                     *)
(***************************************************************************)
\* df.groupby('step')['backlog_units'].diff().fillna(0), at row i
BacklogChange(t, i) ==
    IF PrevInGroup(t, i) = 0 THEN 0
    ELSE t[i].backlog_units - t[PrevInGroup(t, i)].backlog_units

\* Mutant of IsBottleneck: a strict comparison with the threshold.
IsBottleneckStrict(utilization, backlog_change, throughput_loss, threshold_util) ==
    /\ QLt(threshold_util, utilization)
    /\ (backlog_change > 0 \/ throughput_loss > 0)

\* (utilization >= threshold) & ((backlog_change > 0) | (loss > 0))
IsBottleneck(utilization, backlog_change, throughput_loss, threshold_util) ==
    /\ QLeq(threshold_util, utilization)
    /\ (backlog_change > 0 \/ throughput_loss > 0)

\* Row indices of one timestamp's group, in the order of the sorted table.
HourGroup(t, ts) == {i \in 1..Len(t) : t[i].timestamp = ts}

\* Mutant of IdxMaxUtilization: the last row holding the maximum.
IdxMaxUtilizationLast(t, g) ==
    CHOOSE i \in g :
        /\ \A j \in g : QLeq(t[j].utilization, t[i].utilization)
        /\ \A j \in g : QLeq(t[i].utilization, t[j].utilization) => j <= i

\* group['utilization'].idxmax(): the first row holding the maximum
IdxMaxUtilization(t, g) ==
    CHOOSE i \in g :
        /\ \A j \in g : QLeq(t[j].utilization, t[i].utilization)
        /\ \A j \in g : QLeq(t[i].utilization, t[j].utilization) => i <= j

\* group['throughput_loss_units'].idxmax()
IdxMaxLoss(t, g) ==
    CHOOSE i \in g :
        /\ \A j \in g : t[j].throughput_loss_units <= t[i].throughput_loss_units
        /\ \A j \in g : t[i].throughput_loss_units <= t[j].throughput_loss_units
                           => i <= j

\* Mutant of get_bottleneck_step: the throughput loss is looked at first.
get_bottleneck_step_loss_first(t, g, threshold_util) ==
    IF t[IdxMaxLoss(t, g)].throughput_loss_units > 0
    THEN t[IdxMaxLoss(t, g)].step
    ELSE IF QLeq(threshold_util, t[IdxMaxUtilization(t, g)].utilization)
    THEN t[IdxMaxUtilization(t, g)].step
    ELSE "None"

\* get_bottleneck_step(group); Python's None is the string "None"
get_bottleneck_step(t, g, threshold_util) ==
    IF QLeq(threshold_util, t[IdxMaxUtilization(t, g)].utilization)
    THEN t[IdxMaxUtilization(t, g)].step
    ELSE IF t[IdxMaxLoss(t, g)].throughput_loss_units > 0
    THEN t[IdxMaxLoss(t, g)].step
    ELSE "None"

detect_bottlenecks(df, threshold_util) ==
    LET sorted == SortValues(df, "step,timestamp")
    IN  [i \in 1..Len(sorted) |->
            LET backlog_change == BacklogChange(sorted, i)
            IN  [timestamp       |-> sorted[i].timestamp,
                 step            |-> sorted[i].step,
                 utilization     |-> sorted[i].utilization,
                 backlog_units   |-> sorted[i].backlog_units,
                 throughput_loss_units |-> sorted[i].throughput_loss_units,
                 backlog_change  |-> backlog_change,
                 is_bottleneck   |->
                     IsBottleneck(sorted[i].utilization, backlog_change,
                                  sorted[i].throughput_loss_units,
                                  threshold_util),
                 bottleneck_step |->
                     get_bottleneck_step(sorted,
                         HourGroup(sorted, sorted[i].timestamp),
                         threshold_util)]]

(***************************************************************************)
(* Staffing Recommender: recommendations.py.  service_target is the        *)
(* fraction num/den.                                                       *)
(***************************************************************************)
\* required_capacity_units = required_units / service_target
RequiredCapacity(required_units, target) ==
    Q(required_units * target.den, target.num, 0)

\* required_labor_hours = required_capacity_units / (uph + 1e-6)
RequiredLaborHours(required_units, target, uph) ==
    Q(required_units * target.den, target.num * uph, target.num)

\* Mutant of RecommendedHeadcount: rounded down instead of up.
RecommendedHeadcountFloor(required_units, target, uph) ==
    (required_units * target.den * EpsInv)
        \div QDen(RequiredLaborHours(required_units, target, uph))

\* recommended_headcount = np.ceil(required_labor_hours).astype(int)
RecommendedHeadcount(required_units, target, uph) ==
    QCeil(RequiredLaborHours(required_units, target, uph))

\* Mutant of LaborCostImpact: negative gaps are costed too.
LaborCostImpactSigned(headcount_gap, wage_per_hour) ==
    headcount_gap * wage_per_hour

\* labor_cost_impact = np.maximum(0, headcount_gap) * wage_per_hour
LaborCostImpact(headcount_gap, wage_per_hour) ==
    Max(0, headcount_gap) * wage_per_hour

compute_staffing_recommendations(df, service_target, uph_by_step, wage_per_hour) ==
    LET sorted == SortValues(df, "step,timestamp")
    IN  [i \in 1..Len(sorted) |->
            LET backlog_in     == ShiftBacklog(sorted, i)
                required_units == sorted[i].demand_units + backlog_in
                uph            == uph_by_step[sorted[i].step]
                recommended    == RecommendedHeadcount(required_units,
                                      service_target, uph)
                headcount_gap  == recommended - sorted[i].headcount_used
            IN  [timestamp      |-> sorted[i].timestamp,
                 step           |-> sorted[i].step,
                 demand_units   |-> sorted[i].demand_units,
                 backlog_units  |-> sorted[i].backlog_units,
                 headcount_used |-> sorted[i].headcount_used,
                 backlog_in     |-> backlog_in,
                 required_units |-> required_units,
                 required_capacity_units |->
                     RequiredCapacity(required_units, service_target),
                 uph            |-> uph,
                 required_labor_hours |->
                     RequiredLaborHours(required_units, service_target, uph),
                 recommended_headcount |-> recommended,
                 headcount_gap  |-> headcount_gap,
                 labor_cost_impact |->
                     LaborCostImpact(headcount_gap, wage_per_hour)]]

(***************************************************************************)
(* The pipeline run: generate_fc_data, then run.py's analyze, bottlenecks  *)
(* and recommend stages on its table.                                      *)
(***************************************************************************)
StepNames == {"receive", "pick", "pack"}

\* config['steps'] values explored
StepLists == {<<"receive">>, <<"receive", "pick">>,
              <<"receive", "pick", "pack">>}

\* config values explored: bottleneck_threshold_util 0.95, service_target
\* 0.95, uph 2 for receive and 1 for the other steps, wage_per_hour 25
ConfigParams ==
    {[threshold_util |-> Q(19, 20, 0),
      service_target |-> [num |-> 19, den |-> 20],
      uph_by_step    |-> [s \in StepNames |->
                             IF s = "receive" THEN 2 ELSE 1],
      wage_per_hour  |-> 25]}

NoTable == <<>>

Idle == /\ tbl = NoTable
        /\ rng = <<>>
        /\ hashseed = <<>>
        /\ wk = <<>>
        /\ frames = <<>>
        /\ files = <<>>

Init ==
    /\ pc = "generate"
    /\ steps \in StepLists
    /\ num_hours \in 1..NumHours
    /\ Len(steps) * num_hours <= MaxRows
    /\ demand_df \in [1..num_hours -> 0..MaxUnits]
    /\ params \in ConfigParams
    /\ all_data = <<>>
    /\ sim_trace = <<>>
    /\ raw = NoTable
    /\ svc = NoTable
    /\ hourly = NoTable
    /\ bottlenecks = NoTable
    /\ staffing = NoTable
    /\ Idle

\* One iteration of generate_fc_data's loop: generate_step_data for the next
\* step, with the arrays its random draws produce.
GenerateStepData ==
    /\ pc = "generate"
    /\ Len(all_data) < Len(steps)
    /\ LET step == steps[Len(all_data) + 1]
           uph  == params.uph_by_step[step]
       IN  \E step_demand \in StepDemandDraws(step, demand_df) :
           \E capacity_units \in CapacityDraws(step_demand) :
               /\ all_data' = Append(all_data,
                      StepTable(step, uph, step_demand, capacity_units))
               /\ sim_trace' = Append(sim_trace,
                      StepTrace(step_demand, capacity_units))
    /\ UNCHANGED <<pc, steps, num_hours, demand_df, raw, hourly, svc,
                   bottlenecks, staffing, tbl, params, rng, hashseed, wk,
                   frames, files>>

\* The end of generate_fc_data: concat, sort by timestamp and step.
GenerateFcData ==
    /\ pc = "generate"
    /\ Len(all_data) = Len(steps)
    /\ raw' = SortValues(Concat(all_data), "timestamp,step")
    /\ pc' = "generated"
    /\ UNCHANGED <<steps, num_hours, demand_df, all_data, sim_trace, hourly,
                   svc, bottlenecks, staffing, tbl, params, rng, hashseed, wk,
                   frames, files>>

\* compute_capacity_metrics: utilization, service level, hourly roll-up.
ComputeCapacityMetrics ==
    /\ pc = "generated"
    /\ svc' = compute_service_level(compute_utilization(raw))
    /\ hourly' = aggregate_hourly_metrics(svc')
    /\ pc' = "analyzed"
    /\ UNCHANGED <<steps, num_hours, demand_df, all_data, sim_trace, raw,
                   bottlenecks, staffing, tbl, params, rng, hashseed, wk,
                   frames, files>>

\* analyze_bottlenecks on the hourly table.
AnalyzeBottlenecks ==
    /\ pc = "analyzed"
    /\ bottlenecks' = detect_bottlenecks(hourly, params.threshold_util)
    /\ pc' = "detected"
    /\ UNCHANGED <<steps, num_hours, demand_df, all_data, sim_trace, raw,
                   hourly, svc, staffing, tbl, params, rng, hashseed, wk,
                   frames, files>>

\* analyze_staffing on the hourly table.
AnalyzeStaffing ==
    /\ pc = "detected"
    /\ staffing' = compute_staffing_recommendations(hourly,
                       params.service_target, params.uph_by_step,
                       params.wage_per_hour)
    /\ pc' = "recommended"
    /\ UNCHANGED <<steps, num_hours, demand_df, all_data, sim_trace, raw,
                   hourly, svc, bottlenecks, tbl, params, rng, hashseed, wk,
                   frames, files>>

Next ==
    \/ GenerateStepData
    \/ GenerateFcData
    \/ ComputeCapacityMetrics
    \/ AnalyzeBottlenecks
    \/ AnalyzeStaffing

Spec == Init /\ [][Next]_vars

(***************************************************************************)
(* Claims about the simulated table (specification Spec).                  *)
(***************************************************************************)
\* Position of a step in config['steps'].
StepIndex(step) == CHOOSE k \in 1..Len(steps) : steps[k] = step

\* C1. Backlog conservation: in every table generate_step_data returned, for
\* every hour t after the first, backlog_units[t] = max(0, demand_units[t] +
\* backlog_units[t-1] - processed_units[t]) and processed_units[t] <=
\* demand_units[t] + backlog_units[t-1].
C1_BacklogConservation ==
    \A k \in 1..Len(all_data) :
        \A t \in 2..Len(all_data[k]) :
            LET r == all_data[k][t]
                b == all_data[k][t - 1].backlog_units
            IN  /\ r.backlog_units
                     = Max(0, r.demand_units + b - r.processed_units)
                /\ r.processed_units <= r.demand_units + b

\* A table where backlog is carried into an hour that works some of it off
\* and still ends with backlog.
C1_Witness ==
    \E k \in 1..Len(all_data) :
        \E t \in 2..Len(all_data[k]) :
            /\ all_data[k][t - 1].backlog_units > 0
            /\ all_data[k][t].processed_units > 0
            /\ all_data[k][t].backlog_units > 0

\* C2. For every hour of a simulated step, processed_units = min(demand_units
\* + backlog_in, capacity_units), with backlog_in the previous hour's
\* backlog_units of the step and 0 for its first hour; so 0 <= processed <=
\* min(capacity, demand + backlog_in), and backlog_units >= 0.
C2_ProcessedIsMin ==
    \A k \in 1..Len(all_data) :
        \A t \in 1..Len(all_data[k]) :
            LET r          == all_data[k][t]
                backlog_in == IF t = 1 THEN 0
                              ELSE all_data[k][t - 1].backlog_units
            IN  /\ r.processed_units
                     = Min(r.demand_units + backlog_in, r.capacity_units)
                /\ 0 <= r.processed_units
                /\ r.processed_units <= r.capacity_units
                /\ r.processed_units <= r.demand_units + backlog_in
                /\ r.backlog_units >= 0

\* A table with an hour limited by capacity and a later hour limited by
\* demand plus carried backlog.
C2_Witness ==
    \E k \in 1..Len(all_data) :
        \E t \in 2..Len(all_data[k]) :
            /\ all_data[k][t - 1].processed_units
                 = all_data[k][t - 1].capacity_units
            /\ all_data[k][t - 1].backlog_units > 0
            /\ all_data[k][t].processed_units < all_data[k][t].capacity_units
            /\ all_data[k][t].processed_units
                 = all_data[k][t].demand_units
                   + all_data[k][t - 1].backlog_units

\* C4. On the simulator's table, the backlog_in and total_demand that
\* compute_service_level derives, and the backlog_in and required_units that
\* compute_staffing_recommendations derives, equal the backlog_in and
\* total_demand of the simulator's loop for the same step and hour.
C4_SameCarryover ==
    /\ pc \in {"analyzed", "detected", "recommended"} =>
          \A i \in 1..Len(svc) :
              LET tr == sim_trace[StepIndex(svc[i].step)][svc[i].timestamp]
              IN  /\ svc[i].backlog_in = tr.backlog_in
                  /\ svc[i].total_demand = tr.total_demand
    /\ pc = "recommended" =>
          \A i \in 1..Len(staffing) :
              LET tr == sim_trace[StepIndex(staffing[i].step)]
                                 [staffing[i].timestamp]
              IN  /\ staffing[i].backlog_in = tr.backlog_in
                  /\ staffing[i].required_units = tr.total_demand

\* Both recomputations done on a two-step table whose first (sorted) step
\* ends with backlog and whose steps both carry backlog into an hour.
C4_Witness ==
    /\ pc = "recommended"
    /\ Len(steps) >= 2
    /\ \E i \in 2..Len(staffing) :
          /\ staffing[i].step # staffing[i - 1].step
          /\ staffing[i - 1].backlog_units > 0
    /\ \A st \in {steps[k] : k \in 1..Len(steps)} :
          \E i \in 1..Len(svc) : svc[i].step = st /\ svc[i].backlog_in > 0

\* C5. 0 <= utilization <= 1 in every record generate_step_data produced and
\* in every record of the hourly table (compute_utilization, then
\* aggregate_hourly_metrics); an hour with capacity_units 0 has utilization 0.
C5_UtilizationBounds ==
    /\ \A k \in 1..Len(all_data) :
          \A t \in 1..Len(all_data[k]) :
              LET r == all_data[k][t]
              IN  /\ QLeq(QInt(0), r.utilization)
                  /\ QLeq(r.utilization, QInt(1))
                  /\ r.capacity_units = 0 => QEq(r.utilization, QInt(0))
    /\ \A i \in 1..Len(hourly) :
          /\ QLeq(QInt(0), hourly[i].utilization)
          /\ QLeq(hourly[i].utilization, QInt(1))
          /\ hourly[i].capacity_units = 0
                => QEq(hourly[i].utilization, QInt(0))

\* An hourly table with a zero-capacity hour that had demand, and an hour of
\* a fully used positive capacity.
C5_Witness ==
    /\ pc = "analyzed"
    /\ \E i \in 1..Len(hourly) :
          /\ hourly[i].capacity_units = 0
          /\ hourly[i].demand_units > 0
          /\ QEq(hourly[i].utilization, QInt(0))
    /\ \E i \in 1..Len(hourly) :
          /\ hourly[i].capacity_units > 0
          /\ hourly[i].processed_units = hourly[i].capacity_units

(***************************************************************************)
(* Table experiments (specification SpecTable): detect_bottlenecks and     *)
(* compute_staffing_recommendations applied to an externally supplied      *)
(* hourly table that holds every hour of every step once.                  *)
(***************************************************************************)
\* The step names of a step list in Python's str order.
SortedSteps(st) ==
    SortValues([k \in 1..Len(st) |-> [step |-> st[k], timestamp |-> 0]],
               "step,timestamp")

\* Values of the columns the detector reads.
BottleneckProfiles ==
    [utilization : {Q(1, 2, 0), Q(19, 20, 0), Q(24, 25, 0)},
     backlog_units : {0, 5},
     throughput_loss_units : {0, 3},
     demand_units : {0}, headcount_used : {0}]

\* Values of the columns the recommender reads.
StaffingProfiles ==
    [utilization : {Q(1, 2, 0)},
     backlog_units : {0, 5},
     throughput_loss_units : {0},
     demand_units : {0, 95}, headcount_used : {0, 9, 12}]

\* The hourly tables over a step list and a horizon, rows in (timestamp,
\* step) order as aggregate_hourly_metrics writes them.
TablesOf(st, h, profiles) ==
    LET n == Len(st)
    IN  {[k \in 1..(n * h) |->
             [timestamp |-> ((k - 1) \div n) + 1,
              step |-> SortedSteps(st)[((k - 1) % n) + 1].step,
              demand_units |-> f[k].demand_units,
              backlog_units |-> f[k].backlog_units,
              utilization |-> f[k].utilization,
              throughput_loss_units |-> f[k].throughput_loss_units,
              headcount_used |-> f[k].headcount_used]] :
         f \in [1..(n * h) -> profiles]}

\* bottleneck_threshold_util 0.95, service_target 0.95, uph 10, wage 25
TableParams ==
    [threshold_util |-> Q(19, 20, 0),
     service_target |-> [num |-> 19, den |-> 20],
     uph_by_step    |-> [s \in StepNames |-> 10],
     wage_per_hour  |-> 25]

InitTable ==
    /\ pc \in {"bottleneck_input", "staffing_input"}
    /\ steps \in StepLists
    /\ num_hours \in 1..NumHours
    /\ Len(steps) * num_hours <= MaxRows
    /\ tbl \in TablesOf(steps, num_hours,
                  IF pc = "bottleneck_input" THEN BottleneckProfiles
                  ELSE StaffingProfiles)
    /\ params = TableParams
    /\ demand_df = <<>>
    /\ all_data = <<>>
    /\ sim_trace = <<>>
    /\ raw = NoTable
    /\ svc = NoTable
    /\ hourly = NoTable
    /\ bottlenecks = NoTable
    /\ staffing = NoTable
    /\ rng = <<>>
    /\ hashseed = <<>>
    /\ wk = <<>>
    /\ frames = <<>>
    /\ files = <<>>

\* detect_bottlenecks(tbl, threshold)
ApplyDetectBottlenecks ==
    /\ pc = "bottleneck_input"
    /\ bottlenecks' = detect_bottlenecks(tbl, params.threshold_util)
    /\ pc' = "bottleneck_done"
    /\ UNCHANGED <<steps, num_hours, demand_df, all_data, sim_trace, raw,
                   hourly, svc, staffing, tbl, params, rng, hashseed, wk,
                   frames, files>>

\* compute_staffing_recommendations(tbl, target, uph_by_step, wage)
ApplyStaffingRecommendations ==
    /\ pc = "staffing_input"
    /\ staffing' = compute_staffing_recommendations(tbl,
                       params.service_target, params.uph_by_step,
                       params.wage_per_hour)
    /\ pc' = "staffing_done"
    /\ UNCHANGED <<steps, num_hours, demand_df, all_data, sim_trace, raw,
                   hourly, svc, bottlenecks, tbl, params, rng, hashseed, wk,
                   frames, files>>

NextTable ==
    \/ ApplyDetectBottlenecks
    \/ ApplyStaffingRecommendations

SpecTable == InitTable /\ [][NextTable]_vars

(***************************************************************************)
(* Claims about the recomputed service level (specification Spec).         *)
(***************************************************************************)
\* C3. compute_service_level sets service_level_hourly = processed_units /
\* (total_demand + epsilon) clamped to [0, 1], so 0 <= service_level_hourly
\* <= 1 in every record of its output and of the hourly aggregate.
C3_ServiceLevelClamped ==
    /\ \A i \in 1..Len(svc) :
          /\ QLeq(QInt(0), svc[i].service_level_hourly)
          /\ QLeq(svc[i].service_level_hourly, QInt(1))
          /\ QEq(svc[i].service_level_hourly,
                 QClip01(Q(svc[i].processed_units, svc[i].total_demand, 1)))
    /\ \A i \in 1..Len(hourly) :
          /\ QLeq(QInt(0), hourly[i].service_level_hourly)
          /\ QLeq(hourly[i].service_level_hourly, QInt(1))

(***************************************************************************)
(* Claims about the detector and the recommender (specification            *)
(* SpecTable).                                                             *)
(***************************************************************************)
\* The input row of a step and hour.
TblCell(st, ts) ==
    tbl[CHOOSE k \in 1..Len(tbl) : tbl[k].step = st /\ tbl[k].timestamp = ts]

\* backlog_units of the step's previous hour; 0 before its first hour
PrevBacklog(st, ts) ==
    IF ts = 1 THEN 0 ELSE TblCell(st, ts - 1).backlog_units

\* C8. For every record, is_bottleneck = (utilization >= threshold) AND
\* (backlog_change > 0 OR throughput_loss_units > 0), where backlog_change is
\* backlog_units minus the step's backlog_units of the previous hour, 0 for
\* the step's first hour.  A record below the threshold is never flagged; a
\* record with utilization 0.96 at threshold 0.95 and backlog_change +5 is.
C8_IsBottleneckRule ==
    pc = "bottleneck_done" =>
        \A i \in 1..Len(bottlenecks) :
            LET r      == bottlenecks[i]
                in     == TblCell(r.step, r.timestamp)
                change == IF r.timestamp = 1 THEN 0
                          ELSE in.backlog_units
                               - PrevBacklog(r.step, r.timestamp)
                thr    == params.threshold_util
            IN  /\ r.backlog_change = change
                /\ r.is_bottleneck
                     = (/\ QLeq(thr, in.utilization)
                        /\ (change > 0 \/ in.throughput_loss_units > 0))
                /\ QLt(in.utilization, thr) => ~r.is_bottleneck
                /\ (/\ QEq(thr, Q(19, 20, 0))
                    /\ QEq(in.utilization, Q(24, 25, 0))
                    /\ change = 5) => r.is_bottleneck

\* The 0.96 / +5 record without throughput loss is flagged, a record at the
\* threshold with loss is flagged, and a record below it with loss is not.
C8_Witness ==
    /\ pc = "bottleneck_done"
    /\ \E i \in 1..Len(bottlenecks) :
          /\ QEq(bottlenecks[i].utilization, Q(24, 25, 0))
          /\ bottlenecks[i].backlog_change = 5
          /\ bottlenecks[i].throughput_loss_units = 0
          /\ bottlenecks[i].is_bottleneck
    /\ \E i \in 1..Len(bottlenecks) :
          /\ QEq(bottlenecks[i].utilization, params.threshold_util)
          /\ bottlenecks[i].throughput_loss_units > 0
          /\ bottlenecks[i].is_bottleneck
    /\ \E i \in 1..Len(bottlenecks) :
          /\ QLt(bottlenecks[i].utilization, params.threshold_util)
          /\ bottlenecks[i].throughput_loss_units > 0
          /\ ~bottlenecks[i].is_bottleneck

\* The steps whose utilization at hour ts is the hour's maximum.
MaxUtilizationSteps(ts) ==
    {st \in {steps[k] : k \in 1..Len(steps)} :
        \A k \in 1..Len(steps) :
            QLeq(TblCell(steps[k], ts).utilization,
                 TblCell(st, ts).utilization)}

\* The steps whose throughput loss at hour ts is the hour's maximum.
MaxLossSteps(ts) ==
    {st \in {steps[k] : k \in 1..Len(steps)} :
        \A k \in 1..Len(steps) :
            TblCell(steps[k], ts).throughput_loss_units
                <= TblCell(st, ts).throughput_loss_units}

\* The first of a set of steps in the order of the step chain.
FirstInChain(S) ==
    CHOOSE s \in S : \A o \in S : StepIndex(s) <= StepIndex(o)

\* The first of a set of steps in the order of their names.
FirstByName(S) ==
    CHOOSE s \in S : \A o \in S : StepOrd(s) <= StepOrd(o)

\* The first of a set of steps in the given order.
FirstOf(order, S) ==
    IF order = "chain" THEN FirstInChain(S) ELSE FirstByName(S)

\* The step the selection rule names for hour ts, ties going to the first
\* step in the given order.
SelectedStep(ts, order) ==
    IF \E k \in 1..Len(steps) :
           QLeq(params.threshold_util, TblCell(steps[k], ts).utilization)
    THEN FirstOf(order, MaxUtilizationSteps(ts))
    ELSE IF \E k \in 1..Len(steps) :
                TblCell(steps[k], ts).throughput_loss_units > 0
    THEN FirstOf(order, MaxLossSteps(ts))
    ELSE "None"

C10_Record(r) ==
    LET in         == TblCell(r.step, r.timestamp)
        backlog_in == PrevBacklog(r.step, r.timestamp)
        target     == params.service_target
        uph        == params.uph_by_step[r.step]
    IN  /\ r.required_units = in.demand_units + backlog_in
        /\ QEq(r.required_capacity_units,
               Q(r.required_units * target.den, target.num, 0))
        /\ QEq(r.required_labor_hours,
               Q(r.required_units * target.den, target.num * uph,
                 target.num))
        /\ QLeq(r.required_labor_hours, QInt(r.recommended_headcount))
        /\ QLt(QInt(r.recommended_headcount - 1), r.required_labor_hours)
        /\ r.headcount_gap = r.recommended_headcount - in.headcount_used

\* The record of C10's scenario: target 0.95, demand 95, backlog_in 0,
\* uph 10, headcount_used 9.
C10_IsScenario(r) ==
    /\ params.service_target = [num |-> 19, den |-> 20]
    /\ params.uph_by_step[r.step] = 10
    /\ TblCell(r.step, r.timestamp).demand_units = 95
    /\ PrevBacklog(r.step, r.timestamp) = 0
    /\ TblCell(r.step, r.timestamp).headcount_used = 9

\* C10 as stated.  Per record required_units = demand_units + backlog_in,
\* required_capacity = required_units / target, required_labor_hours =
\* required_capacity / (uph + epsilon), recommended_headcount is its ceiling
\* and headcount_gap = recommended_headcount - headcount_used; the scenario
\* yields required_capacity 100, required_labor_hours 10, recommended
\* headcount 10, gap 1 and labor_cost_impact 1 x wage_rate.
C10_ScenarioLaborHoursTen ==
    pc = "staffing_done" =>
        \A i \in 1..Len(staffing) :
            /\ C10_Record(staffing[i])
            /\ C10_IsScenario(staffing[i]) =>
                  /\ QEq(staffing[i].required_capacity_units, QInt(100))
                  /\ QEq(staffing[i].required_labor_hours, QInt(10))
                  /\ staffing[i].recommended_headcount = 10
                  /\ staffing[i].headcount_gap = 1
                  /\ staffing[i].labor_cost_impact = params.wage_per_hour

\* C10 as amended.  The same, except that the scenario's
\* required_labor_hours is 100 / (10 + epsilon), just below 10.
C10_StaffingFormulas ==
    pc = "staffing_done" =>
        \A i \in 1..Len(staffing) :
            /\ C10_Record(staffing[i])
            /\ C10_IsScenario(staffing[i]) =>
                  /\ QEq(staffing[i].required_capacity_units, QInt(100))
                  /\ QEq(staffing[i].required_labor_hours, Q(100, 10, 1))
                  /\ QLt(staffing[i].required_labor_hours, QInt(10))
                  /\ QLt(QInt(9), staffing[i].required_labor_hours)
                  /\ staffing[i].recommended_headcount = 10
                  /\ staffing[i].headcount_gap = 1
                  /\ staffing[i].labor_cost_impact = params.wage_per_hour

\* The scenario's record, and a record that takes backlog from the hour
\* before it.
C10_Witness ==
    /\ pc = "staffing_done"
    /\ \E i \in 1..Len(staffing) :
          /\ C10_IsScenario(staffing[i])
          /\ staffing[i].headcount_gap = 1
    /\ \E i \in 1..Len(staffing) :
          /\ staffing[i].backlog_in = 5
          /\ staffing[i].required_units = 100

(***************************************************************************)
(* Seeded generation.  numpy's legacy global stream is one object per      *)
(* process: np.random.seed(s) resets it, every draw reads it and advances  *)
(* it.  The stream's values are a fixed function of (seed, position); a    *)
(* small stand-in function is used for it.  Each numpy call is one atomic  *)
(* step; between two calls of a thread another thread of the process may   *)
(* run.  hash(step) of a str is salted per interpreter process.            *)
(***************************************************************************)
\* The k-th value of the stream seeded with seed, as a grid value.
Stream(seed, k) ==
    ((seed % 7) * 3 + k * (1 + (seed % 5)) + (seed \div 7)) % (MaxUnits + 1)

\* The next n values of a stream state.
DrawN(r, n) == [k \in 1..n |-> Stream(r.seed, r.pos + k)]

\* The stream state after n draws.
Advance(r, n) == [r EXCEPT !.pos = r.pos + n]

\* hash(step) in a process whose hash salt is hs.
PyHash(step, hs) == StepOrd(step) * 31 + hs * (17 + StepOrd(step))

\* random_state + hash(step) % 1000
StepSeed(random_state, step, hs) == random_state + (PyHash(step, hs) % 1000)

\* Hash salts an interpreter may start with.
HashSeeds == {0, 1, 2}

\* step_demand from the noise draws z (lines 115-122)
NoisyStepDemand(step, demand, z) ==
    IF step = "receive" THEN demand
    ELSE [i \in 1..Len(demand) |->
             IF LaggedDemand20(step, demand[i]) = 0 THEN 0 ELSE z[i]]

\* capacity_units from the noise draws z and the downtime draws u (lines
\* 125-131): downtime fires where u is 0 and, with severity 1, stops the hour.
DrawnCapacity(step_demand, z, u) ==
    [i \in 1..Len(step_demand) |->
        IF SumSeq(step_demand) = 0 \/ u[i] = 0 THEN 0 ELSE z[i]]

Workers == {1, 2}

\* A worker at the start of its calls.
NewWorker(proc, calls, demand) ==
    [proc |-> proc, calls |-> calls, pc |-> "start", i |-> 0,
     demand |-> demand, step_demand |-> <<>>, noise |-> <<>>,
     out |-> <<>>, result |-> NoTable]

\* generate_hourly_demand line 38: np.random.seed(random_state)
DemandSeed(w) ==
    /\ wk[w].pc = "start"
    /\ wk[w].calls # <<>>
    /\ Head(wk[w].calls) = "demand"
    /\ rng' = [rng EXCEPT ![wk[w].proc] =
                  [seed |-> params.random_state, pos |-> 0]]
    /\ wk' = [wk EXCEPT ![w].pc = "promo"]
    /\ UNCHANGED <<pc, steps, num_hours, demand_df, all_data, sim_trace, raw,
                   hourly, svc, bottlenecks, staffing, tbl, params, hashseed,
                   frames, files>>

\* line 45: np.random.choice(num_days, size=promo_days, replace=False)
DemandPromo(w) ==
    /\ wk[w].pc = "promo"
    /\ rng' = [rng EXCEPT ![wk[w].proc] = Advance(@, 1)]
    /\ wk' = [wk EXCEPT ![w].pc = "hours", ![w].i = 1, ![w].demand = <<>>]
    /\ UNCHANGED <<pc, steps, num_hours, demand_df, all_data, sim_trace, raw,
                   hourly, svc, bottlenecks, staffing, tbl, params, hashseed,
                   frames, files>>

\* lines 56-72, one hour: noise = np.random.normal(1.0, 0.1); the hour's
\* demand is max(0, hourly_demand * noise).  After the last hour the table
\* is returned.
DemandHour(w) ==
    /\ wk[w].pc = "hours"
    /\ rng' = [rng EXCEPT ![wk[w].proc] = Advance(@, 1)]
    /\ LET d == Append(wk[w].demand, DrawN(rng[wk[w].proc], 1)[1])
       IN  IF wk[w].i < num_hours
           THEN wk' = [wk EXCEPT ![w].demand = d, ![w].i = @ + 1]
           ELSE wk' = [wk EXCEPT ![w].demand = d, ![w].i = 0,
                                 ![w].pc = "start",
                                 ![w].calls = Tail(@)]
    /\ UNCHANGED <<pc, steps, num_hours, demand_df, all_data, sim_trace, raw,
                   hourly, svc, bottlenecks, staffing, tbl, params, hashseed,
                   frames, files>>

\* generate_step_data line 109: np.random.seed(random_state + hash(step) % 1000)
StepSeedCall(w) ==
    /\ wk[w].pc = "start"
    /\ wk[w].calls # <<>>
    /\ Head(wk[w].calls) # "demand"
    /\ rng' = [rng EXCEPT ![wk[w].proc] =
                  [seed |-> StepSeed(params.random_state, Head(wk[w].calls),
                                     hashseed[wk[w].proc]),
                   pos |-> 0]]
    /\ wk' = [wk EXCEPT ![w].pc = IF Head(wk[w].calls) = "receive"
                                  THEN "capacity" ELSE "step_demand",
                        ![w].step_demand = wk[w].demand]
    /\ UNCHANGED <<pc, steps, num_hours, demand_df, all_data, sim_trace, raw,
                   hourly, svc, bottlenecks, staffing, tbl, params, hashseed,
                   frames, files>>

\* line 122: np.random.normal(0, step_demand * 0.05)
StepDemandNoise(w) ==
    /\ wk[w].pc = "step_demand"
    /\ rng' = [rng EXCEPT ![wk[w].proc] = Advance(@, num_hours)]
    /\ wk' = [wk EXCEPT ![w].pc = "capacity",
                        ![w].step_demand =
                            NoisyStepDemand(Head(wk[w].calls), wk[w].demand,
                                DrawN(rng[wk[w].proc], num_hours))]
    /\ UNCHANGED <<pc, steps, num_hours, demand_df, all_data, sim_trace, raw,
                   hourly, svc, bottlenecks, staffing, tbl, params, hashseed,
                   frames, files>>

\* line 126: np.random.normal(0, capacity_variability_std, len(df))
StepCapacityNoise(w) ==
    /\ wk[w].pc = "capacity"
    /\ rng' = [rng EXCEPT ![wk[w].proc] = Advance(@, num_hours)]
    /\ wk' = [wk EXCEPT ![w].pc = "downtime",
                        ![w].noise = DrawN(rng[wk[w].proc], num_hours)]
    /\ UNCHANGED <<pc, steps, num_hours, demand_df, all_data, sim_trace, raw,
                   hourly, svc, bottlenecks, staffing, tbl, params, hashseed,
                   frames, files>>

\* line 129: np.random.random(len(df)), then lines 130-172 (no more draws)
StepDowntime(w) ==
    /\ wk[w].pc = "downtime"
    /\ rng' = [rng EXCEPT ![wk[w].proc] = Advance(@, num_hours)]
    /\ LET step == Head(wk[w].calls)
           cap  == DrawnCapacity(wk[w].step_demand, wk[w].noise,
                                 DrawN(rng[wk[w].proc], num_hours))
       IN  wk' = [wk EXCEPT ![w].pc = "start",
                            ![w].calls = Tail(@),
                            ![w].out = Append(@,
                                StepTable(step, params.uph_by_step[step],
                                          wk[w].step_demand, cap))]
    /\ UNCHANGED <<pc, steps, num_hours, demand_df, all_data, sim_trace, raw,
                   hourly, svc, bottlenecks, staffing, tbl, params, hashseed,
                   frames, files>>

\* The worker's calls are over; generate_fc_data lines 226-232 combine the
\* step tables.
Finish(w) ==
    /\ wk[w].pc = "start"
    /\ wk[w].calls = <<>>
    /\ wk' = [wk EXCEPT ![w].pc = "done",
                        ![w].result =
                            SortValues(Concat(wk[w].out), "timestamp,step")]
    /\ UNCHANGED <<pc, steps, num_hours, demand_df, all_data, sim_trace, raw,
                   hourly, svc, bottlenecks, staffing, tbl, params, rng,
                   hashseed, frames, files>>

\* Seeds and uph explored.
GenParams ==
    {[threshold_util |-> Q(19, 20, 0),
      service_target |-> [num |-> 19, den |-> 20],
      uph_by_step    |-> [s \in StepNames |-> 1],
      wage_per_hour  |-> 25,
      random_state   |-> rs] : rs \in {0, 42}}

NoPipeline ==
    /\ pc = "workers"
    /\ all_data = <<>>
    /\ sim_trace = <<>>
    /\ raw = NoTable
    /\ svc = NoTable
    /\ hourly = NoTable
    /\ bottlenecks = NoTable
    /\ staffing = NoTable
    /\ tbl = NoTable
    /\ frames = <<>>
    /\ files = <<>>

\* Two runs of generate_fc_data with the same config, each in its own
\* interpreter process.
InitProcs ==
    /\ NoPipeline
    /\ steps \in {<<"receive">>, <<"receive", "pick">>}
    /\ num_hours \in 1..2
    /\ params \in GenParams
    /\ demand_df = <<>>
    /\ hashseed \in [Workers -> HashSeeds]
    /\ rng = [p \in Workers |-> [seed |-> 0, pos |-> 0]]
    /\ wk = [w \in Workers |-> NewWorker(w, <<"demand">> \o steps, <<>>)]

NextProcs ==
    \E w \in Workers :
        \/ DemandSeed(w)
        \/ DemandPromo(w)
        \/ DemandHour(w)
        \/ StepSeedCall(w)
        \/ StepDemandNoise(w)
        \/ StepCapacityNoise(w)
        \/ StepDowntime(w)
        \/ Finish(w)

SpecProcs == InitProcs /\ [][NextProcs]_vars

\* generate_step_data for two different steps on two threads of one process,
\* on the same demand table.
InitThreads ==
    /\ NoPipeline
    /\ steps \in {<<"receive", "pick">>, <<"pick", "pack">>}
    /\ num_hours \in 1..2
    /\ params \in GenParams
    /\ demand_df \in [1..num_hours -> 0..MaxUnits]
    /\ hashseed \in [{1} -> HashSeeds]
    /\ rng = [p \in {1} |-> [seed |-> 0, pos |-> 0]]
    /\ wk = [w \in Workers |-> NewWorker(1, <<steps[w]>>, demand_df)]

NextThreads ==
    \E w \in Workers :
        \/ StepSeedCall(w)
        \/ StepDemandNoise(w)
        \/ StepCapacityNoise(w)
        \/ StepDowntime(w)
        \/ Finish(w)

SpecThreads == InitThreads /\ [][NextThreads]_vars

\* The table generate_step_data returns for a step when nothing else touches
\* the process's stream.
AloneTable(step, demand, random_state, hs) ==
    LET n    == Len(demand)
        r0   == [seed |-> StepSeed(random_state, step, hs), pos |-> 0]
        r1   == IF step = "receive" THEN r0 ELSE Advance(r0, n)
        sd   == NoisyStepDemand(step, demand, DrawN(r0, n))
        cap  == DrawnCapacity(sd, DrawN(r1, n), DrawN(Advance(r1, n), n))
    IN  StepTable(step, params.uph_by_step[step], sd, cap)

\* C6. For a fixed seed and parameter set, two independent runs of
\* generate_hourly_demand and generate_step_data, and so of generate_fc_data,
\* give identical tables, also when the runs are two separate processes.
C6_SameTablesAcrossRuns ==
    (\A w \in Workers : wk[w].pc = "done") =>
        /\ wk[1].demand = wk[2].demand
        /\ wk[1].out = wk[2].out
        /\ wk[1].result = wk[2].result

\* C7. When generate_step_data runs for two different steps concurrently in
\* one process, under every interleaving each step's table equals the table
\* of that step run alone with the same arguments.
C7_ParallelEqualsAlone ==
    \A w \in Workers :
        wk[w].pc = "done" =>
            wk[w].out = <<AloneTable(steps[w], demand_df,
                                     params.random_state, hashseed[1])>>

(***************************************************************************)
(* Claims about the staffing cost (specification SpecTable).               *)
(***************************************************************************)
\* C11. For every record of compute_staffing_recommendations, with a wage
\* rate >= 0: labor_cost_impact is 0 when headcount_gap <= 0 and wage_rate x
\* headcount_gap otherwise; so labor_cost_impact >= 0.
C11_CostOnlyForPositiveGap ==
    pc = "staffing_done" =>
        \A i \in 1..Len(staffing) :
            LET r == staffing[i]
            IN  /\ r.headcount_gap <= 0 => r.labor_cost_impact = 0
                /\ r.headcount_gap > 0 =>
                      r.labor_cost_impact
                          = params.wage_per_hour * r.headcount_gap
                /\ r.labor_cost_impact >= 0

\* A table with an overstaffed record (negative gap, no cost) and an
\* understaffed one (positive gap, costed).
C11_Witness ==
    /\ pc = "staffing_done"
    /\ params.wage_per_hour > 0
    /\ \E i \in 1..Len(staffing) :
          /\ staffing[i].headcount_gap < 0
          /\ staffing[i].labor_cost_impact = 0
    /\ \E i \in 1..Len(staffing) :
          /\ staffing[i].headcount_gap > 1
          /\ staffing[i].labor_cost_impact > params.wage_per_hour

(***************************************************************************)
(* Calls and table ownership.  A DataFrame is an object; a function gets   *)
(* a reference to the caller's object under the name df.  df.copy() makes  *)
(* a new object, df[col] = ... writes into the object df names, and        *)
(* sort_values, merge and groupby().agg() build new objects.  A call frame *)
(* is [h, df]: the two objects in play (the caller's and the function's    *)
(* own) and the one the name df refers to.                                 *)
(***************************************************************************)
\* Entry of a call with the caller's table.
Enter(table) == [h |-> [caller |-> table, local |-> <<>>], df |-> "caller"]

\* Mutant of DfCopy: no copy is taken, df keeps naming the caller's object.
DfAlias(f) == f

\* df = df.copy()
DfCopy(f) == [h |-> [f.h EXCEPT !.local = f.h[f.df]], df |-> "local"]

\* df[col] = ...: the object df names is written in place
DfAssign(f, table) == [h |-> [f.h EXCEPT ![f.df] = table], df |-> f.df]

\* df = <expression building a new table>
DfRebind(f, table) == [h |-> [f.h EXCEPT !.local = table], df |-> "local"]

\* return df: what the caller's object holds now, and the returned table
Return(f, before) ==
    [before |-> before, after |-> f.h.caller, result |-> f.h[f.df]]

\* compute_utilization: copy (line 44), assign the column (line 47)
compute_utilization_call(table) ==
    LET f0 == DfCopy(Enter(table))
        f1 == DfAssign(f0, compute_utilization(f0.h[f0.df]))
    IN  Return(f1, table)

\* compute_service_level: copy (line 61), sort into a new table (line 65),
\* assign four columns (lines 68-77)
compute_service_level_call(table) ==
    LET f0 == DfCopy(Enter(table))
        f1 == DfRebind(f0, SortValues(f0.h[f0.df], "step,timestamp"))
        f2 == DfAssign(f1, compute_service_level(f1.h[f1.df]))
    IN  Return(f2, table)

\* aggregate_hourly_metrics: groupby().agg().reset_index() (lines 91-102)
aggregate_hourly_metrics_call(table) ==
    LET f0 == Enter(table)
    IN  Return(DfRebind(f0, aggregate_hourly_metrics(f0.h[f0.df])), table)

\* aggregate_daily_metrics (lines 116-127)
aggregate_daily_metrics_call(table) ==
    LET f0 == Enter(table)
    IN  Return(DfRebind(f0, aggregate_daily_metrics(f0.h[f0.df])), table)

\* aggregate_site_daily_metrics (lines 141-152)
aggregate_site_daily_metrics_call(table) ==
    LET f0 == Enter(table)
    IN  Return(DfRebind(f0, aggregate_site_daily_metrics(f0.h[f0.df])), table)

\* detect_bottlenecks: copy (line 47), sort into a new table (line 48),
\* assign two columns (lines 51-57), merge into a new table (line 71)
detect_bottlenecks_call(table, threshold_util) ==
    LET f0 == DfCopy(Enter(table))
        f1 == DfRebind(f0, SortValues(f0.h[f0.df], "step,timestamp"))
        f2 == DfRebind(f1, detect_bottlenecks(f1.h[f1.df], threshold_util))
    IN  Return(f2, table)

\* compute_staffing_recommendations: copy (line 52), sort into a new table
\* (line 56), assign the columns (lines 57-76)
compute_staffing_recommendations_call(table, service_target, uph_by_step, wage_per_hour) ==
    LET f0 == DfCopy(Enter(table))
        f1 == DfRebind(f0, SortValues(f0.h[f0.df], "step,timestamp"))
        f2 == DfAssign(f1, compute_staffing_recommendations(f1.h[f1.df],
                               service_target, uph_by_step, wage_per_hour))
    IN  Return(f2, table)

\* generate_step_data: copy of demand_df (line 111), then the columns are
\* assigned (lines 112, 162-170)
generate_step_data_call(demand, step, uph, step_demand, capacity_units) ==
    LET f0 == DfCopy(Enter(demand))
        f1 == DfAssign(f0, StepTable(step, uph, step_demand, capacity_units))
    IN  Return(f1, demand)

(***************************************************************************)
(* Call experiments (specification SpecCalls): the aggregator, the         *)
(* detector and the recommender called in turn on an externally supplied   *)
(* hourly table whose utilization column was filled in by its supplier    *)
(* and which begins in one of the last two hours of a day, and             *)
(* generate_step_data called on a demand table.                            *)
(***************************************************************************)
\* Values of the columns the aggregator reads.
AggProfiles ==
    [capacity_units : {0, MaxUnits}, processed_units : {0, 1},
     backlog_units : {0, 1}]

\* The utilization the supplier wrote into every row.
SuppliedUtilization == Q(1, 2, 0)

\* The table as a second supplier hands it in: the same but for the
\* utilization column, which holds 0, 1, 2, ... down the rows.
WithOtherUtilization(t) ==
    [i \in 1..Len(t) |-> [t[i] EXCEPT !.utilization = QInt(i - 1)]]

\* The raw tables over a step list and h hours from hour first on, rows in
\* (timestamp, step) order.
AggTables(st, h, first) ==
    LET n == Len(st)
    IN  {[k \in 1..(n * h) |->
             [timestamp |-> first + ((k - 1) \div n),
              step |-> SortedSteps(st)[((k - 1) % n) + 1].step,
              demand_units |-> 1,
              capacity_units |-> f[k].capacity_units,
              processed_units |-> f[k].processed_units,
              backlog_units |-> f[k].backlog_units,
              utilization |-> SuppliedUtilization,
              labor_hours_used |-> LaborHoursUsed(f[k].processed_units, 1),
              headcount_used |-> HeadcountUsed(f[k].processed_units, 1)]] :
         f \in [1..(n * h) -> AggProfiles]}

\* The two-hour scenario of the simulator: demand 100 then 50, capacity 80.
ScenarioDemand == <<100, 50>>
ScenarioCapacity == <<80, 80>>

InitCalls ==
    /\ pc \in {"agg_input", "gen_input"}
    /\ steps \in {<<"receive">>, <<"receive", "pick">>}
    /\ num_hours \in 1..NumHours
    /\ Len(steps) * num_hours <= MaxRows
    /\ IF pc = "agg_input"
       THEN /\ \E first \in {HoursPerDay - 1, HoursPerDay} :
                   tbl \in AggTables(steps, num_hours, first)
            /\ demand_df = <<>>
       ELSE /\ tbl = NoTable
            /\ demand_df \in [1..num_hours -> 0..MaxUnits]
                             \cup {d \in {ScenarioDemand} :
                                      Len(d) = num_hours}
    /\ params = TableParams
    /\ all_data = <<>>
    /\ sim_trace = <<>>
    /\ raw = NoTable
    /\ svc = NoTable
    /\ hourly = NoTable
    /\ bottlenecks = NoTable
    /\ staffing = NoTable
    /\ rng = <<>>
    /\ hashseed = <<>>
    /\ wk = <<>>
    /\ frames = <<>>
    /\ files = <<>>

\* compute_utilization(tbl), and the same call on the table a second
\* supplier would have handed in.
CallComputeUtilization ==
    /\ pc = "agg_input"
    /\ LET call == compute_utilization_call(tbl)
           twin == compute_utilization_call(WithOtherUtilization(tbl))
       IN  /\ frames' = ("compute_utilization" :> call)
                        @@ ("compute_utilization_twin" :> twin)
           /\ tbl' = call.after
    /\ pc' = "agg_utilization"
    /\ UNCHANGED <<steps, num_hours, demand_df, all_data, sim_trace, raw,
                   hourly, svc, bottlenecks, staffing, params, rng, hashseed,
                   wk, files>>

\* compute_service_level on the table compute_utilization returned
CallComputeServiceLevel ==
    /\ pc = "agg_utilization"
    /\ frames' = ("compute_service_level" :>
                     compute_service_level_call(
                         frames["compute_utilization"].result)) @@ frames
    /\ pc' = "agg_service"
    /\ UNCHANGED <<steps, num_hours, demand_df, all_data, sim_trace, raw,
                   hourly, svc, bottlenecks, staffing, tbl, params, rng,
                   hashseed, wk, files>>

\* compute_utilization, then compute_service_level, on the aggregator's own
\* output
CallAggregatorAgain ==
    /\ pc = "agg_service"
    /\ LET first == compute_utilization_call(
                        frames["compute_service_level"].result)
           second == compute_service_level_call(first.result)
       IN  frames' = ("compute_utilization_again" :> first)
                     @@ ("compute_service_level_again" :> second) @@ frames
    /\ pc' = "agg_again"
    /\ UNCHANGED <<steps, num_hours, demand_df, all_data, sim_trace, raw,
                   hourly, svc, bottlenecks, staffing, tbl, params, rng,
                   hashseed, wk, files>>

\* compute_capacity_metrics lines 179-185: the three roll-ups of the table
\* compute_service_level returned, one after the other on the same object
CallAggregates ==
    /\ pc = "agg_again"
    /\ LET h == aggregate_hourly_metrics_call(
                    frames["compute_service_level"].result)
           d == aggregate_daily_metrics_call(h.after)
           s == aggregate_site_daily_metrics_call(d.after)
       IN  frames' = ("aggregate_hourly_metrics" :> h)
                     @@ ("aggregate_daily_metrics" :> d)
                     @@ ("aggregate_site_daily_metrics" :> s) @@ frames
    /\ pc' = "agg_aggregated"
    /\ UNCHANGED <<steps, num_hours, demand_df, all_data, sim_trace, raw,
                   hourly, svc, bottlenecks, staffing, tbl, params, rng,
                   hashseed, wk, files>>

\* detect_bottlenecks on the hourly roll-up
CallDetectBottlenecks ==
    /\ pc = "agg_aggregated"
    /\ frames' = ("detect_bottlenecks" :>
                     detect_bottlenecks_call(
                         frames["aggregate_hourly_metrics"].result,
                         params.threshold_util)) @@ frames
    /\ pc' = "agg_detected"
    /\ UNCHANGED <<steps, num_hours, demand_df, all_data, sim_trace, raw,
                   hourly, svc, bottlenecks, staffing, tbl, params, rng,
                   hashseed, wk, files>>

\* compute_staffing_recommendations on the hourly roll-up
CallStaffingRecommendations ==
    /\ pc = "agg_detected"
    /\ frames' = ("compute_staffing_recommendations" :>
                     compute_staffing_recommendations_call(
                         frames["aggregate_hourly_metrics"].result,
                         params.service_target, params.uph_by_step,
                         params.wage_per_hour)) @@ frames
    /\ pc' = "agg_done"
    /\ UNCHANGED <<steps, num_hours, demand_df, all_data, sim_trace, raw,
                   hourly, svc, bottlenecks, staffing, tbl, params, rng,
                   hashseed, wk, files>>

\* generate_step_data(demand_df, step, ...) for one step of the list
CallGenerateStepData ==
    /\ pc = "gen_input"
    /\ \E k \in 1..Len(steps) :
       \E step_demand \in StepDemandDraws(steps[k], demand_df) :
       \E capacity_units \in CapacityDraws(step_demand)
                              \cup {c \in {ScenarioCapacity} :
                                       Len(c) = Len(step_demand)} :
          LET call == generate_step_data_call(demand_df, steps[k],
                          params.uph_by_step[steps[k]], step_demand,
                          capacity_units)
          IN  /\ frames' = ("generate_step_data" :> call)
              /\ demand_df' = call.after
    /\ pc' = "gen_done"
    /\ UNCHANGED <<steps, num_hours, all_data, sim_trace, raw, hourly, svc,
                   bottlenecks, staffing, tbl, params, rng, hashseed, wk,
                   files>>

\* compute_utilization on the table generate_step_data returned
CallComputeUtilizationOnStepTable ==
    /\ pc = "gen_done"
    /\ frames' = ("compute_utilization" :>
                     compute_utilization_call(
                         frames["generate_step_data"].result)) @@ frames
    /\ pc' = "gen_recomputed"
    /\ UNCHANGED <<steps, num_hours, demand_df, all_data, sim_trace, raw,
                   hourly, svc, bottlenecks, staffing, tbl, params, rng,
                   hashseed, wk, files>>

NextCalls ==
    \/ CallComputeUtilization
    \/ CallComputeServiceLevel
    \/ CallAggregatorAgain
    \/ CallAggregates
    \/ CallDetectBottlenecks
    \/ CallStaffingRecommendations
    \/ CallGenerateStepData
    \/ CallComputeUtilizationOnStepTable

SpecCalls == InitCalls /\ [][NextCalls]_vars

(***************************************************************************)
(* Claims about the aggregator's calls (specification SpecCalls).          *)
(***************************************************************************)
\* C12. The utilization column compute_utilization returns depends only on
\* processed_units and capacity_units: every row holds clamp(processed /
\* (capacity + epsilon), 0, 1) whatever the supplied value was, the call on a
\* table that differs only in its supplied utilization column returns the
\* same table, and on a table generate_step_data produced the recomputed
\* value is the simulator's own.
C12_UtilizationRecomputed ==
    /\ pc \in {"agg_utilization", "gen_recomputed"} =>
          LET in  == frames["compute_utilization"].before
              res == frames["compute_utilization"].result
          IN  /\ Len(res) = Len(in)
              /\ \A i \in 1..Len(res) :
                    /\ QEq(res[i].utilization,
                           QClip01(Q(in[i].processed_units,
                                     in[i].capacity_units, 1)))
                    /\ res[i] = [in[i] EXCEPT !.utilization
                                                  = res[i].utilization]
    /\ pc = "agg_utilization" =>
          frames["compute_utilization_twin"].result
              = frames["compute_utilization"].result
    /\ pc = "gen_recomputed" =>
          \A i \in 1..Len(frames["compute_utilization"].result) :
              QEq(frames["compute_utilization"].result[i].utilization,
                  frames["generate_step_data"].result[i].utilization)

\* Two tables that differ in the supplied column were recomputed, with a row
\* whose recomputed value lies strictly between 0 and 1 and differs from the
\* supplied one, and a row clamped to 1.
C12_Witness ==
    /\ pc = "agg_utilization"
    /\ frames["compute_utilization_twin"].before
           # frames["compute_utilization"].before
    /\ \E i \in 1..Len(frames["compute_utilization"].result) :
          LET r == frames["compute_utilization"].result[i]
          IN  /\ QLt(QInt(0), r.utilization)
              /\ QLt(r.utilization, QInt(1))
              /\ ~QEq(r.utilization, SuppliedUtilization)
    /\ \E i \in 1..Len(frames["compute_utilization"].result) :
          LET r == frames["compute_utilization"].result[i]
          IN  /\ r.capacity_units = 0
              /\ r.processed_units > 0
              /\ QEq(r.utilization, QInt(1))

\* The row of a table for a step and hour.
RowOf(t, st, ts) ==
    t[CHOOSE k \in 1..Len(t) : t[k].step = st /\ t[k].timestamp = ts]

\* C13. The aggregator's recomputation is idempotent: compute_utilization
\* followed by compute_service_level, applied to their own output, gives for
\* every (step, timestamp) the same utilization, backlog_in, total_demand,
\* service_level_hourly and throughput_loss_units as the first application.
C13_RecomputationIdempotent ==
    pc \in {"agg_again", "agg_aggregated", "agg_detected", "agg_done"} =>
        LET once  == frames["compute_service_level"].result
            twice == frames["compute_service_level_again"].result
        IN  /\ Len(twice) = Len(once)
            /\ \A i \in 1..Len(once) :
                  LET a == once[i]
                      b == RowOf(twice, a.step, a.timestamp)
                  IN  /\ b.utilization = a.utilization
                      /\ b.backlog_in = a.backlog_in
                      /\ b.total_demand = a.total_demand
                      /\ b.service_level_hourly = a.service_level_hourly
                      /\ b.throughput_loss_units = a.throughput_loss_units

\* The recomputation ran twice on a two-step table that it had to reorder,
\* with backlog carried into an hour and throughput lost in an hour.
C13_Witness ==
    /\ pc = "agg_again"
    /\ Len(steps) = 2
    /\ [i \in 1..Len(tbl) |-> tbl[i].step]
          # [i \in 1..Len(tbl) |->
                 frames["compute_service_level"].result[i].step]
    /\ \E i \in 1..Len(tbl) :
          /\ frames["compute_service_level_again"].result[i].backlog_in > 0
          /\ frames["compute_service_level_again"].result[i]
                 .throughput_loss_units > 0

\* Sum of processed_units over the rows of a table that satisfy a date and,
\* unless st is "site", a step.
ProcessedOn(t, date, st) ==
    SumSeq(Column(SelectSeq(t, LAMBDA r :
                      /\ (IF "date" \in DOMAIN r THEN r.date
                          ELSE DateOf(r.timestamp)) = date
                      /\ (st = "site" \/ r.step = st)),
                  "processed_units"))

\* C14. For every calendar date and step, processed_units of the
\* daily-per-step aggregate equals the sum of processed_units over the
\* hourly-per-step records of that date and step, and the site-daily value of
\* a date equals the sum of the daily-per-step values over all steps.
C14_DailySumsOfHourly ==
    pc \in {"agg_aggregated", "agg_detected", "agg_done"} =>
        LET per_hour == frames["aggregate_hourly_metrics"].result
            daily    == frames["aggregate_daily_metrics"].result
            site     == frames["aggregate_site_daily_metrics"].result
        IN  /\ \A i \in 1..Len(per_hour) :
                  \E k \in 1..Len(daily) :
                      /\ daily[k].date = DateOf(per_hour[i].timestamp)
                      /\ daily[k].step = per_hour[i].step
                      /\ \A j \in 1..Len(daily) :
                            (/\ daily[j].date = daily[k].date
                             /\ daily[j].step = daily[k].step) => j = k
            /\ \A k \in 1..Len(daily) :
                  daily[k].processed_units
                      = ProcessedOn(per_hour, daily[k].date, daily[k].step)
            /\ \A i \in 1..Len(daily) :
                  \E k \in 1..Len(site) : site[k].date = daily[i].date
            /\ \A k \in 1..Len(site) :
                  /\ site[k].processed_units
                         = ProcessedOn(daily, site[k].date, "site")
                  /\ \A j \in 1..Len(site) :
                         site[j].date = site[k].date => j = k

\* Two steps with two hours of one date each: both daily values add two
\* positive hours and the site value adds the two steps.
C14_Witness ==
    /\ pc = "agg_aggregated"
    /\ Len(frames["aggregate_hourly_metrics"].result) = 4
    /\ Len(frames["aggregate_daily_metrics"].result) = 2
    /\ \A k \in 1..2 :
          frames["aggregate_daily_metrics"].result[k].processed_units = 2
    /\ frames["aggregate_site_daily_metrics"].result[1].processed_units = 4

\* C19. No component mutates a table it did not produce: when
\* generate_step_data, compute_utilization, compute_service_level, the three
\* aggregate functions, detect_bottlenecks and
\* compute_staffing_recommendations return, the table passed in has the same
\* rows, columns, values and row order as before the call.
C19_ArgumentsUntouched ==
    \A fn \in DOMAIN frames : frames[fn].after = frames[fn].before

\* The aggregator, detector and recommender have all been called, each first
\* call returned a table that differs from the one it was given, and the
\* sorting functions returned their rows in another order than they got them.
C19_Witness ==
    /\ pc = "agg_done"
    /\ DOMAIN frames =
           {"compute_utilization", "compute_utilization_twin",
            "compute_service_level", "compute_utilization_again",
            "compute_service_level_again", "aggregate_hourly_metrics",
            "aggregate_daily_metrics", "aggregate_site_daily_metrics",
            "detect_bottlenecks", "compute_staffing_recommendations"}
    /\ \A fn \in DOMAIN frames \ {"compute_utilization_again",
                                   "compute_service_level_again"} :
          frames[fn].result # frames[fn].before
    /\ \A fn \in {"compute_service_level", "detect_bottlenecks",
                  "compute_staffing_recommendations"} :
          [i \in 1..Len(frames[fn].before) |-> frames[fn].before[i].step]
              # [i \in 1..Len(frames[fn].result) |->
                     frames[fn].result[i].step]

(***************************************************************************)
(* Claims about the simulator's scenario (specification SpecCalls).        *)
(***************************************************************************)
\* generate_step_data returned the table of step "receive" for the
\* scenario's demand and capacity.
C15_IsScenario ==
    /\ pc = "gen_done"
    /\ frames["generate_step_data"].before = ScenarioDemand
    /\ \A i \in 1..2 :
          /\ frames["generate_step_data"].result[i].step = "receive"
          /\ frames["generate_step_data"].result[i].capacity_units
                 = ScenarioCapacity[i]

\* The units of the scenario: hour 1 processes 80 and leaves 20; hour 2 has
\* total demand 70, processes 70 and leaves 0.
C15_Units ==
    LET t == frames["generate_step_data"].result
    IN  /\ t[1].demand_units = 100
        /\ t[1].processed_units = 80
        /\ t[1].backlog_units = 20
        /\ t[2].demand_units + t[1].backlog_units = 70
        /\ t[2].processed_units = 70
        /\ t[2].backlog_units = 0

\* C15 as stated.  For step "receive", hour 1 with demand 100, capacity 80
\* and no backlog gives processed 80, backlog 20 and utilization exactly 1.0;
\* hour 2 with demand 50, capacity 80 and backlog 20 gives total demand 70,
\* processed 70, backlog 0 and utilization exactly 0.875.
C15_ScenarioExactUtilization ==
    C15_IsScenario =>
        /\ C15_Units
        /\ QEq(frames["generate_step_data"].result[1].utilization, QInt(1))
        /\ QEq(frames["generate_step_data"].result[2].utilization,
               Q(7, 8, 0))

\* C15 as amended.  The same units; the utilizations are 80 / (80 + epsilon)
\* and 70 / (80 + epsilon), just below 1.0 and just below 0.875.
C15_ScenarioUtilizationWithEpsilon ==
    C15_IsScenario =>
        LET u1 == frames["generate_step_data"].result[1].utilization
            u2 == frames["generate_step_data"].result[2].utilization
        IN  /\ C15_Units
            /\ QEq(u1, Q(80, 80, 1))
            /\ QLt(u1, QInt(1))
            /\ QLt(Q(999, 1000, 0), u1)
            /\ QEq(u2, Q(70, 80, 1))
            /\ QLt(u2, Q(7, 8, 0))
            /\ QLt(Q(874, 1000, 0), u2)

\* The scenario's table has been generated.
C15_Witness ==
    /\ C15_IsScenario
    /\ frames["generate_step_data"].result[2].processed_units = 70

(***************************************************************************)
(* Step chains (specification SpecChain): generate_fc_data's loop over     *)
(* config['steps'] for step lists in any order and with any names, on a    *)
(* one-hour horizon.                                                       *)
(***************************************************************************)
\* config['steps'] values explored
ChainStepLists ==
    {<<"receive", "pick", "pack">>, <<"receive", "pack", "pick">>,
     <<"pick", "receive">>, <<"receive", "ship">>}

\* step_demand before the noise of line 122, in twentieths of a unit: the
\* raw demand for 'receive' (line 116), the lagged demand otherwise (line 121)
DemandBeforeNoise20(step, demand) ==
    [i \in 1..Len(demand) |->
        IF step = "receive" THEN 20 * demand[i]
        ELSE LaggedDemand20(step, demand[i])]

InitChain ==
    /\ pc = "chain"
    /\ steps \in ChainStepLists
    /\ num_hours = 1
    /\ demand_df \in [1..num_hours -> 0..MaxUnits]
    /\ params = [TableParams EXCEPT !.uph_by_step =
                     [s \in StepNames \cup {"ship"} |-> 1]]
    /\ all_data = <<>>
    /\ sim_trace = <<>>
    /\ raw = NoTable
    /\ svc = NoTable
    /\ hourly = NoTable
    /\ bottlenecks = NoTable
    /\ staffing = NoTable
    /\ Idle

\* One iteration of the loop of lines 210-224, keeping the step's demand
\* before noise.
ChainGenerateStepData ==
    /\ pc = "chain"
    /\ Len(all_data) < Len(steps)
    /\ LET step == steps[Len(all_data) + 1]
       IN  \E step_demand \in StepDemandDraws(step, demand_df) :
           \E capacity_units \in CapacityDraws(step_demand) :
               /\ all_data' = Append(all_data,
                      StepTable(step, params.uph_by_step[step], step_demand,
                                capacity_units))
               /\ sim_trace' = Append(sim_trace,
                      [step |-> step,
                       before_noise20 |->
                           DemandBeforeNoise20(step, demand_df)])
    /\ UNCHANGED <<pc, steps, num_hours, demand_df, raw, hourly, svc,
                   bottlenecks, staffing, tbl, params, rng, hashseed, wk,
                   frames, files>>

\* lines 226-230: concat, sort by timestamp and step
ChainGenerateFcData ==
    /\ pc = "chain"
    /\ Len(all_data) = Len(steps)
    /\ raw' = SortValues(Concat(all_data), "timestamp,step")
    /\ pc' = "chain_done"
    /\ UNCHANGED <<steps, num_hours, demand_df, all_data, sim_trace, hourly,
                   svc, bottlenecks, staffing, tbl, params, rng, hashseed, wk,
                   frames, files>>

NextChain ==
    \/ ChainGenerateStepData
    \/ ChainGenerateFcData

SpecChain == InitChain /\ [][NextChain]_vars

\* C16. For any configured ordered list of steps, the first step of the chain
\* receives the raw demand unmodified, and the k-th step (k > 1) receives,
\* before noise, the raw demand reduced by a factor fixed by its position k
\* (5% per position after the first, at most 15%), whatever the steps are
\* named.
C16_LagByPosition ==
    \A k \in 1..Len(sim_trace) :
        /\ k = 1 =>
              /\ sim_trace[1].before_noise20
                     = [i \in 1..num_hours |-> 20 * demand_df[i]]
              /\ \A i \in 1..num_hours :
                     all_data[1][i].demand_units = demand_df[i]
        /\ k > 1 =>
              sim_trace[k].before_noise20
                  = [i \in 1..num_hours |->
                        demand_df[i] * (20 - Min(k - 1, 3))]

(***************************************************************************)
(* generate_hourly_demand (specification SpecDemand), statement by         *)
(* statement.  Timestamps are hours since the midnight of start_date;      *)
(* multipliers and noise are in tenths, so demand values are in            *)
(* ten-thousandths of a unit.  log records every call on the numpy stream. *)
(***************************************************************************)
MaxDays == 2       \* largest num_days generated

\* start + timedelta(days=day) + timedelta(hours=hour) (lines 49, 57)
TimestampOf(day, hour) == HoursPerDay * day + hour

\* current_date.weekday() >= 5 (line 50), start_date falling on start_weekday
IsWeekend(start_weekday, day) == ((start_weekday + day) % 7) >= 5

\* np.random.choice(num_days, size=promo_days, replace=False) (line 45):
\* promo_days distinct day indices, fixed by the stream value z
ChoiceWithoutReplacement(num_days, promo_days, z) ==
    {(z + j) % num_days : j \in 0..(promo_days - 1)}

\* np.random.normal(1.0, 0.1) in tenths (line 69), from the stream value z;
\* the normal distribution has negative values
NormalTenths(z) == IF z = 0 THEN -1 ELSE 8 + z

\* hourly_demand * noise without the floor
NoFloor(x) == x

\* max(0, hourly_demand * noise) (line 70)
FloorAtZero(x) == Max(0, x)

\* the loop of line 48 never draws the promo days again
PcAfterDayRedraw(day, num_days) ==
    IF day < num_days THEN "promo" ELSE "return"

\* for day in range(num_days) (line 48): the next day, or the return
PcAfterDay(day, num_days) == IF day < num_days THEN "day" ELSE "return"

\* (base_demand_mean / 24) * dow_multiplier * hour_mult * promo_mult
\* (lines 53-54, 61-66)
HourlyDemandBase(p, is_weekend, is_promo, hour) ==
    p.base_per_hour
    * (IF is_weekend THEN p.weekend_multiplier ELSE p.weekday_multiplier)
    * (IF hour \in p.peak_hours THEN p.peak_multiplier
       ELSE p.off_peak_multiplier)
    * (IF is_promo THEN p.promo_multiplier ELSE 10)

\* Arguments explored: num_days >= 1 and 0 <= promo_days <= num_days.
DemandParams ==
    {[num_days |-> nd, promo_days |-> pd, start_weekday |-> sw,
      base_per_hour |-> b, weekend_multiplier |-> 8,
      weekday_multiplier |-> 10, peak_hours |-> {10, 11, 12},
      peak_multiplier |-> 15, off_peak_multiplier |-> 5,
      promo_multiplier |-> 20, random_state |-> rs] :
        nd \in 1..MaxDays, pd \in 0..MaxDays, sw \in {4, 6}, b \in {0, 1},
        rs \in {0, 1, 42}}

InitDemand ==
    /\ pc = "generate_hourly_demand"
    /\ params \in {p \in DemandParams : p.promo_days <= p.num_days}
    /\ steps = <<>>
    /\ num_hours = HoursPerDay * params.num_days
    /\ demand_df = <<>>
    /\ all_data = <<>>
    /\ sim_trace = <<>>
    /\ raw = NoTable
    /\ svc = NoTable
    /\ hourly = NoTable
    /\ bottlenecks = NoTable
    /\ staffing = NoTable
    /\ tbl = NoTable
    /\ frames = <<>>
    /\ files = <<>>
    /\ hashseed = [p \in {1} |-> 0]
    /\ rng = [p \in {1} |-> [seed |-> 0, pos |-> 0]]
    /\ wk = [w \in {1} |->
                [pc |-> "seed", day |-> 0, hour |-> 0,
                 promo_day_indices |-> {}, is_weekend |-> FALSE,
                 is_promo |-> FALSE, timestamps |-> <<>>, hours |-> <<>>,
                 log |-> <<>>]]

\* line 38: np.random.seed(random_state)
HourlyDemandSeed ==
    /\ pc = "generate_hourly_demand"
    /\ wk[1].pc = "seed"
    /\ rng' = [rng EXCEPT ![1] = [seed |-> params.random_state, pos |-> 0]]
    /\ wk' = [wk EXCEPT ![1].pc = "promo",
                        ![1].log = Append(@, [op |-> "seed", pos |-> 0,
                                              timestamp |-> -1])]
    /\ UNCHANGED <<pc, steps, num_hours, demand_df, all_data, sim_trace, raw,
                   hourly, svc, bottlenecks, staffing, tbl, params, hashseed,
                   frames, files>>

\* lines 45-46: the promo days are drawn
HourlyDemandPromo ==
    /\ pc = "generate_hourly_demand"
    /\ wk[1].pc = "promo"
    /\ rng' = [rng EXCEPT ![1] = Advance(@, 1)]
    /\ wk' = [wk EXCEPT
                 ![1].pc = "day",
                 ![1].promo_day_indices =
                     ChoiceWithoutReplacement(params.num_days,
                         params.promo_days, DrawN(rng[1], 1)[1]),
                 ![1].log = Append(@, [op |-> "choice",
                                       pos |-> rng[1].pos + 1,
                                       timestamp |-> -1])]
    /\ UNCHANGED <<pc, steps, num_hours, demand_df, all_data, sim_trace, raw,
                   hourly, svc, bottlenecks, staffing, tbl, params, hashseed,
                   frames, files>>

\* lines 48-54: the head of the day loop
HourlyDemandDay ==
    /\ pc = "generate_hourly_demand"
    /\ wk[1].pc = "day"
    /\ wk' = [wk EXCEPT
                 ![1].pc = "hour",
                 ![1].hour = 0,
                 ![1].is_weekend =
                     IsWeekend(params.start_weekday, wk[1].day),
                 ![1].is_promo = wk[1].day \in wk[1].promo_day_indices]
    /\ UNCHANGED <<pc, steps, num_hours, demand_df, all_data, sim_trace, raw,
                   hourly, svc, bottlenecks, staffing, tbl, params, rng,
                   hashseed, frames, files>>

\* lines 56-72: one hour of the day
HourlyDemandHour ==
    /\ pc = "generate_hourly_demand"
    /\ wk[1].pc = "hour"
    /\ rng' = [rng EXCEPT ![1] = Advance(@, 1)]
    /\ LET timestamp == TimestampOf(wk[1].day, wk[1].hour)
           noise == NormalTenths(DrawN(rng[1], 1)[1])
           hourly_demand ==
               FloorAtZero(HourlyDemandBase(params, wk[1].is_weekend,
                               wk[1].is_promo, wk[1].hour) * noise)
           last == wk[1].hour + 1 = HoursPerDay
       IN  wk' = [wk EXCEPT
                     ![1].timestamps = Append(@, timestamp),
                     ![1].hours = Append(@, hourly_demand),
                     ![1].log = Append(@, [op |-> "normal",
                                           pos |-> rng[1].pos + 1,
                                           timestamp |-> timestamp]),
                     ![1].hour = IF last THEN 0 ELSE @ + 1,
                     ![1].day = IF last THEN @ + 1 ELSE @,
                     ![1].pc = IF last
                               THEN PcAfterDay(wk[1].day + 1, params.num_days)
                               ELSE "hour"]
    /\ UNCHANGED <<pc, steps, num_hours, demand_df, all_data, sim_trace, raw,
                   hourly, svc, bottlenecks, staffing, tbl, params, hashseed,
                   frames, files>>

\* lines 74-77: the table of timestamps and demand values
HourlyDemandReturn ==
    /\ pc = "generate_hourly_demand"
    /\ wk[1].pc = "return"
    /\ tbl' = [i \in 1..Len(wk[1].timestamps) |->
                  [timestamp |-> wk[1].timestamps[i],
                   demand_units |-> wk[1].hours[i]]]
    /\ demand_df' = wk[1].hours
    /\ pc' = "demand_returned"
    /\ UNCHANGED <<steps, num_hours, all_data, sim_trace, raw, hourly, svc,
                   bottlenecks, staffing, params, rng, hashseed, wk, frames,
                   files>>

NextDemand ==
    \/ HourlyDemandSeed
    \/ HourlyDemandPromo
    \/ HourlyDemandDay
    \/ HourlyDemandHour
    \/ HourlyDemandReturn

SpecDemand == InitDemand /\ [][NextDemand]_vars

\* C17. generate_hourly_demand returns exactly 24 x num_days records, one per
\* hour: the first at the start date, each next one hour later; every demand
\* value is >= 0 (num_days >= 1, 0 <= promo_days <= num_days).
C17_HourlyDemandShape ==
    pc = "demand_returned" =>
        /\ Len(tbl) = 24 * params.num_days
        /\ tbl[1].timestamp = 0
        /\ \A i \in 1..(Len(tbl) - 1) :
               tbl[i + 1].timestamp = tbl[i].timestamp + 1
        /\ \A i \in 1..Len(tbl) : tbl[i].demand_units >= 0

\* Two days returned, one of them a promo day, with an hour whose negative
\* noise was floored to 0 and an hour with positive demand.
C17_Witness ==
    /\ pc = "demand_returned"
    /\ params.num_days = 2
    /\ params.promo_days = 1
    /\ Len(tbl) = 48
    /\ \E i \in 1..Len(tbl) :
          /\ tbl[i].demand_units = 0
          /\ params.base_per_hour > 0
          /\ NormalTenths(Stream(rng[1].seed, wk[1].log[i + 2].pos)) < 0
    /\ \E i \in 1..Len(tbl) : tbl[i].demand_units > 0

\* C18. The calls on the stream are, in order: the seeding, then the one
\* draw of the promo days, then one noise draw per hour in increasing
\* timestamp order, each reading the stream position next to the one read
\* before it; nothing else draws.  Always, and by the return every hour has
\* had its draw.
C18_DrawOrder ==
    pc \in {"generate_hourly_demand", "demand_returned"} =>
        LET log == wk[1].log
        IN  /\ \A k \in 1..Len(log) :
                   /\ k = 1 => log[k].op = "seed"
                   /\ k = 2 => log[k].op = "choice" /\ log[k].pos = 1
                   /\ k > 2 => /\ log[k].op = "normal"
                               /\ log[k].timestamp = k - 3
                               /\ log[k].pos = k - 1
            /\ rng[1].pos = Max(0, Len(log) - 1)
            /\ wk[1].pc \in {"day", "hour", "return"} => Len(log) >= 2
            /\ pc = "demand_returned" =>
                   Len(log) = 2 + 24 * params.num_days

\* The second day's hours drawn after the first day's, the promo days
\* drawn once.
C18_Witness ==
    /\ pc = "demand_returned"
    /\ params.num_days = 2
    /\ Len(wk[1].log) = 50
    /\ wk[1].log[2].op = "choice"
    /\ wk[1].log[50] = [op |-> "normal", pos |-> 49, timestamp |-> 47]
    /\ wk[1].promo_day_indices # {}

(***************************************************************************)
(* validate_schema (specification SpecSchema).  A table is seen through    *)
(* its columns and their dtypes: tbl maps each column of df.columns to     *)
(* its dtype.                                                              *)
(***************************************************************************)
\* required_columns (lines 41-45)
RequiredColumns ==
    {"timestamp", "step", "demand_units", "capacity_units",
     "processed_units", "backlog_units", "utilization", "cycle_time_min",
     "uph", "labor_hours_used", "headcount_used"}

\* the columns whose dtype lines 52-57 check, in the order checked
NumericChecked == <<"demand_units", "capacity_units", "processed_units">>

\* pd.api.types.is_numeric_dtype
IsNumericDtype(dtype) == dtype \in {"int64", "float64"}

\* validate_schema's outcome: the exception raised with the columns its
\* message names, or the normal return (lines 47-57)
validate_schema(df) ==
    LET missing == RequiredColumns \ DOMAIN df
        bad(k) == ~IsNumericDtype(df[NumericChecked[k]])
    IN  IF missing # {}
        THEN [raised |-> "ValueError", columns |-> missing]
        ELSE IF \E k \in 1..Len(NumericChecked) : bad(k)
        THEN LET first == CHOOSE k \in 1..Len(NumericChecked) :
                              /\ bad(k)
                              /\ \A j \in 1..(k - 1) : ~bad(j)
             IN  [raised |-> "ValueError",
                  columns |-> {NumericChecked[first]}]
        ELSE [raised |-> "none", columns |-> {}]

\* Tables explored: some of these columns absent, each checked column that
\* is present of one of these dtypes.
AbsentCandidates == {"step", "demand_units", "uph"}
Dtypes == {"int64", "float64", "object"}
SchemaTables ==
    {df \in UNION {[RequiredColumns \ absent -> Dtypes] :
                       absent \in SUBSET AbsentCandidates} :
        \A c \in DOMAIN df :
            (\A k \in 1..Len(NumericChecked) : c # NumericChecked[k])
                => df[c] = (IF c \in {"timestamp", "step"} THEN "object"
                            ELSE "float64")}

InitSchema ==
    /\ pc = "validate_schema"
    /\ tbl \in SchemaTables
    /\ steps = <<>>
    /\ num_hours = 0
    /\ demand_df = <<>>
    /\ all_data = <<>>
    /\ sim_trace = <<>>
    /\ raw = NoTable
    /\ svc = NoTable
    /\ hourly = NoTable
    /\ bottlenecks = NoTable
    /\ staffing = NoTable
    /\ params = TableParams
    /\ rng = <<>>
    /\ hashseed = <<>>
    /\ frames = <<>>
    /\ files = <<>>
    /\ wk = [w \in {1} |-> [raised |-> "none", columns |-> {}]]

\* preprocess.py line 107: validate_schema(df)
CallValidateSchema ==
    /\ pc = "validate_schema"
    /\ wk' = [wk EXCEPT ![1] = validate_schema(tbl)]
    /\ pc' = IF validate_schema(tbl).raised = "none"
             THEN "schema_valid" ELSE "schema_raised"
    /\ UNCHANGED <<steps, num_hours, demand_df, all_data, sim_trace, raw,
                   hourly, svc, bottlenecks, staffing, tbl, params, rng,
                   hashseed, frames, files>>

NextSchema == CallValidateSchema

SpecSchema == InitSchema /\ [][NextSchema]_vars

\* C20. When a required column is absent or fails the numeric type check,
\* validate_schema raises one error whose message lists every missing and
\* every non-numeric column at once.
C20_ErrorListsEveryColumn ==
    pc \in {"schema_valid", "schema_raised"} =>
        LET missing == RequiredColumns \ DOMAIN tbl
            invalid == {c \in DOMAIN tbl :
                           /\ \E k \in 1..Len(NumericChecked) :
                                  c = NumericChecked[k]
                           /\ ~IsNumericDtype(tbl[c])}
        IN  missing \cup invalid # {} =>
                /\ pc = "schema_raised"
                /\ wk[1].columns = missing \cup invalid

(***************************************************************************)
(* Properties that follow from the simulator's recurrence (specifications  *)
(* Spec and SpecGenerate) and from the detector's rule (specification      *)
(* SpecTable).                                                             *)
(***************************************************************************)
\* The generate command alone: generate_fc_data's loop over the steps and its
\* concatenation, from the same initial states as Spec, with none of the
\* analysis stages after it.
NextGenerate ==
    \/ GenerateStepData
    \/ GenerateFcData

SpecGenerate == Init /\ [][NextGenerate]_vars

\* Sum of column c over the first t rows of a table.
PrefixSum(table, c, t) == SumSeq([i \in 1..t |-> table[i][c]])

\* C26. Flow conservation over every prefix of the horizon: in every table
\* generate_step_data returned and for every hour t, the demand_units summed
\* over the hours up to t equal the processed_units summed over the hours up
\* to t plus backlog_units[t].
C26_PrefixConservation ==
    \A k \in 1..Len(all_data) :
        \A t \in 1..Len(all_data[k]) :
            PrefixSum(all_data[k], "demand_units", t)
                = PrefixSum(all_data[k], "processed_units", t)
                  + all_data[k][t].backlog_units

\* Three hours of a step with backlog carried over two hours and worked off
\* in part.
C26_Witness ==
    \E k \in 1..Len(all_data) :
        /\ Len(all_data[k]) = 3
        /\ all_data[k][1].backlog_units > 0
        /\ all_data[k][2].backlog_units > 0
        /\ all_data[k][3].processed_units > 0
        /\ PrefixSum(all_data[k], "processed_units", 3)
               < PrefixSum(all_data[k], "demand_units", 3)

\* C27. Work conservation: in every record generate_step_data produced,
\* backlog_units > 0 implies processed_units = capacity_units, and
\* processed_units < capacity_units implies backlog_units = 0.
C27_WorkConserving ==
    \A k \in 1..Len(all_data) :
        \A t \in 1..Len(all_data[k]) :
            LET r == all_data[k][t]
            IN  /\ r.backlog_units > 0
                       => r.processed_units = r.capacity_units
                /\ r.processed_units < r.capacity_units
                       => r.backlog_units = 0

\* An hour that ends with backlog at positive capacity, and an hour with
\* capacity to spare.
C27_Witness ==
    /\ \E k \in 1..Len(all_data) : \E t \in 1..Len(all_data[k]) :
          /\ all_data[k][t].backlog_units > 0
          /\ all_data[k][t].capacity_units > 0
    /\ \E k \in 1..Len(all_data) : \E t \in 1..Len(all_data[k]) :
          /\ all_data[k][t].processed_units > 0
          /\ all_data[k][t].processed_units < all_data[k][t].capacity_units

\* C28. On the simulator's table, throughput_loss_units recomputed by
\* compute_service_level equals backlog_units in every record (also of the
\* hourly aggregate); so in detect_bottlenecks' output backlog_change > 0
\* implies throughput_loss_units > 0, and is_bottleneck holds exactly when
\* utilization >= threshold and backlog_units > 0.
C28_LossIsBacklog ==
    /\ \A i \in 1..Len(svc) :
           svc[i].throughput_loss_units = svc[i].backlog_units
    /\ \A i \in 1..Len(hourly) :
           hourly[i].throughput_loss_units = hourly[i].backlog_units
    /\ \A i \in 1..Len(bottlenecks) :
           LET r == bottlenecks[i]
           IN  /\ r.backlog_change > 0 => r.throughput_loss_units > 0
               /\ r.is_bottleneck
                      <=> (/\ QLeq(params.threshold_util, r.utilization)
                           /\ r.backlog_units > 0)

\* A flagged hour whose backlog went down but is not worked off, and a fully
\* used hour without backlog that is not flagged.
C28_Witness ==
    /\ pc = "detected"
    /\ \E i \in 1..Len(bottlenecks) :
          /\ bottlenecks[i].is_bottleneck
          /\ bottlenecks[i].backlog_change < 0
          /\ bottlenecks[i].throughput_loss_units > 0
    /\ \E i \in 1..Len(bottlenecks) :
          /\ ~bottlenecks[i].is_bottleneck
          /\ QLeq(params.threshold_util, bottlenecks[i].utilization)
          /\ bottlenecks[i].backlog_units = 0

\* C29. On the simulator's table, with 0 < target <= 1 and the uph the
\* simulation used, compute_staffing_recommendations gives
\* recommended_headcount >= headcount_used in every record: headcount_gap is
\* never negative.
C29_GapNeverNegative ==
    \A i \in 1..Len(staffing) :
        /\ staffing[i].recommended_headcount >= staffing[i].headcount_used
        /\ staffing[i].headcount_gap >= 0

\* A record staffed as recommended, and a record that needs more heads than
\* it used.
C29_Witness ==
    /\ pc = "recommended"
    /\ 0 < params.service_target.num
    /\ params.service_target.num <= params.service_target.den
    /\ \E i \in 1..Len(staffing) :
          /\ staffing[i].headcount_used > 0
          /\ staffing[i].headcount_gap = 0
    /\ \E i \in 1..Len(staffing) : staffing[i].headcount_gap > 0

\* C30. In detect_bottlenecks' output, whenever some record of a timestamp
\* has is_bottleneck = true, the timestamp's bottleneck_step is not empty
\* and names a step of that timestamp whose utilization is >= threshold and
\* is the largest utilization of the hour.
C30_FlaggedHourNamesMaxStep ==
    \A i \in 1..Len(bottlenecks) :
        bottlenecks[i].is_bottleneck =>
            \A j \in 1..Len(bottlenecks) :
                bottlenecks[j].timestamp = bottlenecks[i].timestamp =>
                    /\ bottlenecks[j].bottleneck_step # "None"
                    /\ \E m \in 1..Len(bottlenecks) :
                          /\ bottlenecks[m].timestamp = bottlenecks[i].timestamp
                          /\ bottlenecks[m].step = bottlenecks[j].bottleneck_step
                          /\ QLeq(params.threshold_util,
                                  bottlenecks[m].utilization)
                          /\ \A n \in 1..Len(bottlenecks) :
                                 bottlenecks[n].timestamp
                                     = bottlenecks[i].timestamp
                                 => QLeq(bottlenecks[n].utilization,
                                         bottlenecks[m].utilization)

\* A flagged record whose hour names another step: one with higher
\* utilization and no throughput loss.
C30_Witness ==
    /\ pc = "bottleneck_done"
    /\ \E i \in 1..Len(bottlenecks) :
          /\ bottlenecks[i].is_bottleneck
          /\ bottlenecks[i].bottleneck_step # bottlenecks[i].step
          /\ \E m \in 1..Len(bottlenecks) :
                /\ bottlenecks[m].timestamp = bottlenecks[i].timestamp
                /\ bottlenecks[m].step = bottlenecks[i].bottleneck_step
                /\ ~bottlenecks[m].is_bottleneck
                /\ bottlenecks[m].throughput_loss_units = 0

(***************************************************************************)
(* preprocess_data (specification SpecPreprocess): validate_schema, then   *)
(* create_features, on raw tables that hold every required column.  A      *)
(* column read from the CSV with a non-numeric value in it has dtype       *)
(* object.                                                                 *)
(***************************************************************************)
\* the flow and level columns of the raw table
FlowLevelColumns ==
    {"demand_units", "capacity_units", "processed_units", "backlog_units",
     "utilization", "cycle_time_min", "labor_hours_used", "headcount_used"}

\* numeric_cols of create_features (lines 81-83)
NumericCols == FlowLevelColumns \cup {"uph"}

\* pd.to_numeric(column, errors='coerce') (line 86): values that do not
\* parse become NaN, without an error
ToNumericCoerce(dtype) ==
    IF IsNumericDtype(dtype) THEN dtype ELSE "float64 with NaN"

\* create_features (lines 69-88), on the columns' dtypes: timestamp parsed,
\* date, dow, hour, is_weekend added, the numeric columns coerced
create_features(df) ==
    [c \in DOMAIN df \cup {"date", "dow", "hour", "is_weekend"} |->
        IF c = "timestamp" THEN "datetime64"
        ELSE IF c \in {"date", "step"} THEN "object"
        ELSE IF c \in {"dow", "hour"} THEN "int64"
        ELSE IF c = "is_weekend" THEN "bool"
        ELSE IF c \in NumericCols THEN ToNumericCoerce(df[c])
        ELSE df[c]]

\* Raw tables explored: every required column, each flow or level column
\* numeric or holding a non-numeric value.
PreprocessTables ==
    {df \in [RequiredColumns -> {"float64", "object"}] :
        /\ df["timestamp"] = "object"
        /\ df["step"] = "object"
        /\ df["uph"] = "float64"}

InitPreprocess ==
    /\ pc = "preprocess_data"
    /\ tbl \in PreprocessTables
    /\ steps = <<>>
    /\ num_hours = 0
    /\ demand_df = <<>>
    /\ all_data = <<>>
    /\ sim_trace = <<>>
    /\ raw = NoTable
    /\ svc = NoTable
    /\ hourly = NoTable
    /\ bottlenecks = NoTable
    /\ staffing = NoTable
    /\ params = TableParams
    /\ rng = <<>>
    /\ hashseed = <<>>
    /\ frames = <<>>
    /\ files = <<>>
    /\ wk = [w \in {1} |-> [raised |-> "none", columns |-> {}]]

\* preprocess_data line 107: validate_schema(df); an exception leaves
\* preprocess_data
PreprocessValidateSchema ==
    /\ pc = "preprocess_data"
    /\ wk' = [wk EXCEPT ![1] = validate_schema(tbl)]
    /\ pc' = IF validate_schema(tbl).raised = "none"
             THEN "create_features" ELSE "preprocess_raised"
    /\ UNCHANGED <<steps, num_hours, demand_df, all_data, sim_trace, raw,
                   hourly, svc, bottlenecks, staffing, tbl, params, rng,
                   hashseed, frames, files>>

\* preprocess_data lines 110-116: df = create_features(df); return df
PreprocessCreateFeatures ==
    /\ pc = "create_features"
    /\ frames' = ("create_features" :>
                     Return(DfAssign(DfCopy(Enter(tbl)),
                                     create_features(tbl)), tbl))
    /\ pc' = "preprocess_returned"
    /\ UNCHANGED <<steps, num_hours, demand_df, all_data, sim_trace, raw,
                   hourly, svc, bottlenecks, staffing, tbl, params, rng,
                   hashseed, wk, files>>

NextPreprocess ==
    \/ PreprocessValidateSchema
    \/ PreprocessCreateFeatures

SpecPreprocess == InitPreprocess /\ [][NextPreprocess]_vars

\* C21. A non-numeric value in any flow or level column of the input table
\* makes preprocessing fail with a schema-validation error: preprocess_data
\* never gets past validate_schema with such a column, and never returns a
\* table in which such a column was coerced.
C21_NonNumericRejected ==
    (\E c \in FlowLevelColumns : ~IsNumericDtype(tbl[c])) =>
        /\ pc \in {"preprocess_data", "preprocess_raised"}
        /\ pc = "preprocess_raised" => wk[1].raised # "none"

(***************************************************************************)
(* The commands of run.py (specification SpecStages).  A file is named by  *)
(* the configuration key that holds its path; files maps each file that    *)
(* exists to its content; params.keys is the set of keys the configuration *)
(* file defines.  Each stage loads the configuration, loads its input,     *)
(* computes, and saves its output files one after another.                 *)
(***************************************************************************)
\* What each stage reads and writes, in the order of its code: the key of
\* the file its loader requires and the command its error message names,
\* the other keys read before the first write, and the keys of its output
\* files in the order written.
Stages ==
    [generate |->
        [input |-> "none", run_first |-> "none",
         reads |-> {"num_days", "steps"},
         outputs |-> <<"data.raw_file">>],
     preprocess |->
        [input |-> "data.raw_file", run_first |-> "generate",
         reads |-> {},
         outputs |-> <<"data.processed_file">>],
     analyze |->
        [input |-> "data.processed_file", run_first |-> "preprocess",
         reads |-> {},
         outputs |-> <<"data.step_hourly_file", "data.step_daily_file",
                       "data.site_daily_file">>],
     bottlenecks |->
        [input |-> "data.step_hourly_file", run_first |-> "analyze",
         reads |-> {"bottleneck_threshold_util"},
         outputs |-> <<"data.bottlenecks_file",
                       "reports.bottleneck_summary">>],
     recommend |->
        [input |-> "data.step_hourly_file", run_first |-> "analyze",
         reads |-> {"service_target", "uph_by_step", "wage_per_hour"},
         outputs |-> <<"data.staffing_file", "reports.staffing_summary">>],
     report |->
        [input |-> "none", run_first |-> "none",
         reads |-> {"data.site_daily_file", "data.step_daily_file",
                    "data.bottlenecks_file", "data.staffing_file"},
         outputs |-> <<"reports.kpis_json", "reports.kpis_md">>]]

\* run_all's calls, in order (run.py lines 105-110)
RunOrder ==
    <<"generate", "preprocess", "analyze", "bottlenecks", "recommend",
      "report">>

\* every key the stages use
ConfigKeys ==
    UNION {Stages[st].reads \cup {Stages[st].outputs[k] :
                                     k \in 1..Len(Stages[st].outputs)} :
           st \in DOMAIN Stages}

NoError == [raised |-> "none", path |-> "none", run_first |-> "none"]

\* Mutant of LoadInput: the file is read without the exists() test.
LoadInputUnchecked(stage, fs, keys) ==
    IF Stages[stage].input # "none" /\ Stages[stage].input \notin keys
    THEN [NoError EXCEPT !.raised = "KeyError"]
    ELSE NoError

\* A stage's loader (load_raw_data, load_clean_data, load_hourly_metrics):
\* config['data'][...] first, then the exists() test, whose error names the
\* path and the command to run first; preprocess then validates the schema.
LoadInput(stage, fs, keys) ==
    LET s == Stages[stage]
    IN  IF s.input = "none" THEN NoError
        ELSE IF s.input \notin keys
        THEN [NoError EXCEPT !.raised = "KeyError"]
        ELSE IF s.input \notin DOMAIN fs
        THEN [raised |-> "FileNotFoundError", path |-> s.input,
              run_first |-> s.run_first]
        ELSE IF stage = "preprocess" /\ fs[s.input] = "bad schema"
        THEN [NoError EXCEPT !.raised = "ValueError"]
        ELSE NoError

\* The save function of a stage: for each output in turn, look its key up
\* and write the file; a key the configuration lacks raises KeyError there.
RECURSIVE SaveOutputs(_, _, _, _)
SaveOutputs(outputs, k, fs, keys) ==
    IF k > Len(outputs) THEN [files |-> fs, error |-> NoError]
    ELSE IF outputs[k] \notin keys
    THEN [files |-> fs, error |-> [NoError EXCEPT !.raised = "KeyError"]]
    ELSE SaveOutputs(outputs, k + 1,
             [p \in DOMAIN fs \cup {outputs[k]} |->
                 IF p = outputs[k] THEN "this run" ELSE fs[p]],
             keys)

\* One stage of run.py (run_generate ... run_report): the files after it and
\* the exception it ended with, if any.
RunStage(stage, fs, keys) ==
    LET s == Stages[stage]
        loaded == LoadInput(stage, fs, keys)
    IN  IF loaded.raised # "none" THEN [files |-> fs, error |-> loaded]
        ELSE IF ~(s.reads \subseteq keys)
        THEN [files |-> fs, error |-> [NoError EXCEPT !.raised = "KeyError"]]
        ELSE SaveOutputs(s.outputs, 1, fs, keys)

\* Mutant of AfterStage: run_all goes on after a stage that raised.
AfterStageGoOn(raised, started) ==
    IF started = Len(RunOrder) THEN "complete" ELSE "run_all"

\* run_all's try block (lines 104-110): the next call, the except clause,
\* or the end of the block
AfterStage(raised, started) ==
    IF raised # "none" THEN "except"
    ELSE IF started = Len(RunOrder) THEN "complete" ELSE "run_all"

\* Project directories explored: files left by earlier runs.
EarlierFiles ==
    UNION {[present -> {"earlier run"}] :
              present \in SUBSET {"data.raw_file", "data.processed_file",
                                  "data.step_hourly_file",
                                  "data.bottlenecks_file"}}
    \cup {[p \in present \cup {"data.raw_file"} |->
              IF p = "data.raw_file" THEN "bad schema" ELSE "earlier run"] :
              present \in SUBSET {"data.processed_file",
                                  "data.step_hourly_file"}}

\* Configurations explored: complete, or lacking one key.
ConfigKeySets ==
    {ConfigKeys} \cup
    {ConfigKeys \ {k} : k \in {"steps", "data.raw_file",
                               "data.processed_file", "data.step_daily_file",
                               "reports.bottleneck_summary",
                               "reports.staffing_summary", "service_target",
                               "reports.kpis_md"}}

InitStages ==
    /\ pc \in {"command", "run_all"}
    /\ files \in EarlierFiles
    /\ params \in [keys : ConfigKeySets]
    /\ wk \in [{1} -> [command : IF pc = "run_all" THEN {"all"}
                                 ELSE {"preprocess", "analyze", "bottlenecks",
                                       "recommend"},
                       started : {<<>>}, failures : {<<>>},
                       before : {files}, missing : {{}},
                       exit : {"running"}]]
    /\ steps = <<>>
    /\ num_hours = 0
    /\ demand_df = <<>>
    /\ all_data = <<>>
    /\ sim_trace = <<>>
    /\ raw = NoTable
    /\ svc = NoTable
    /\ hourly = NoTable
    /\ bottlenecks = NoTable
    /\ staffing = NoTable
    /\ tbl = NoTable
    /\ rng = <<>>
    /\ hashseed = <<>>
    /\ frames = <<>>

\* The worker after running a stage: what it started, the failures met,
\* the files before the stage, the outputs of earlier started stages that
\* did not exist when it started.
StageRun(w, stage, run) ==
    [w EXCEPT
        !.started = Append(@, stage),
        !.failures = IF run.error.raised = "none" THEN @
                     ELSE Append(@, [stage |-> stage, error |-> run.error]),
        !.before = files,
        !.missing = @ \cup
            {p \in ConfigKeys :
                /\ p \notin DOMAIN files
                /\ \E j \in 1..Len(w.started) : \E k \in 1..3 :
                       /\ k <= Len(Stages[w.started[j]].outputs)
                       /\ Stages[w.started[j]].outputs[k] = p}]

\* python run.py <stage>: main() calls the stage's function (line 159); an
\* exception ends the process with a traceback and status 1
RunCommand ==
    /\ pc = "command"
    /\ LET run == RunStage(wk[1].command, files, params.keys)
       IN  /\ files' = run.files
           /\ wk' = [wk EXCEPT ![1] =
                        [StageRun(wk[1], wk[1].command, run) EXCEPT
                            !.exit = IF run.error.raised = "none" THEN "0"
                                     ELSE "1"]]
    /\ pc' = "exited"
    /\ UNCHANGED <<steps, num_hours, demand_df, all_data, sim_trace, raw,
                   hourly, svc, bottlenecks, staffing, tbl, params, rng,
                   hashseed, frames>>

\* run_all, one call of the try block (lines 105-110)
RunAllStage ==
    /\ pc = "run_all"
    /\ LET stage == RunOrder[Len(wk[1].started) + 1]
           run == RunStage(stage, files, params.keys)
       IN  /\ files' = run.files
           /\ wk' = [wk EXCEPT ![1] = StageRun(wk[1], stage, run)]
           /\ pc' = AfterStage(run.error.raised, Len(wk[1].started) + 1)
    /\ UNCHANGED <<steps, num_hours, demand_df, all_data, sim_trace, raw,
                   hourly, svc, bottlenecks, staffing, tbl, params, rng,
                   hashseed, frames>>

\* run_all lines 127-131: except Exception: ... sys.exit(1)
RunAllExcept ==
    /\ pc = "except"
    /\ wk' = [wk EXCEPT ![1].exit = "1"]
    /\ pc' = "exited"
    /\ UNCHANGED <<steps, num_hours, demand_df, all_data, sim_trace, raw,
                   hourly, svc, bottlenecks, staffing, tbl, params, rng,
                   hashseed, frames, files>>

\* run_all lines 112-125: the summary is printed and run_all returns
RunAllComplete ==
    /\ pc = "complete"
    /\ wk' = [wk EXCEPT ![1].exit = "0"]
    /\ pc' = "exited"
    /\ UNCHANGED <<steps, num_hours, demand_df, all_data, sim_trace, raw,
                   hourly, svc, bottlenecks, staffing, tbl, params, rng,
                   hashseed, frames, files>>

NextStages ==
    \/ RunCommand
    \/ RunAllStage
    \/ RunAllExcept
    \/ RunAllComplete

SpecStages == InitStages /\ [][NextStages]_vars

\* run.py as a sequential process: it keeps running until it exits.
SpecStagesFair == SpecStages /\ WF_vars(NextStages)

\* The stage run last, and whether it raised.
LastStage == wk[1].started[Len(wk[1].started)]
LastStageRaised ==
    /\ wk[1].started # <<>>
    /\ wk[1].failures # <<>>
    /\ wk[1].failures[Len(wk[1].failures)].stage = LastStage

\* C22. Partial output is never written: when a stage (preprocess, analyze,
\* bottlenecks, recommend) fails, by a schema validation failure, a missing
\* input or a missing configuration key, the set and content of the files
\* is what it was before the stage.
C22_NoPartialOutput ==
    (/\ LastStageRaised
     /\ LastStage \in {"preprocess", "analyze", "bottlenecks", "recommend"})
        => files = wk[1].before

\* C23. Whenever the file a stage's loader requires does not exist, the
\* loader raises the missing-input error (FileNotFoundError) whose message
\* names the missing path and the command that produces it, and the stage
\* writes nothing.
C23_MissingInputNamed ==
    (/\ wk[1].started # <<>>
     /\ Stages[LastStage].input # "none"
     /\ Stages[LastStage].input \in params.keys
     /\ Stages[LastStage].input \notin DOMAIN wk[1].before)
        => /\ LastStageRaised
           /\ LET err == wk[1].failures[Len(wk[1].failures)].error
              IN  /\ err.raised = "FileNotFoundError"
                  /\ err.path = Stages[LastStage].input
                  /\ err.run_first \in DOMAIN Stages
                  /\ \E k \in 1..Len(Stages[err.run_first].outputs) :
                         Stages[err.run_first].outputs[k] = err.path
           /\ files = wk[1].before

\* recommend run without the hourly file, next to files of an earlier run.
C23_Witness ==
    /\ pc = "exited"
    /\ wk[1].command = "recommend"
    /\ "data.step_hourly_file" \notin DOMAIN wk[1].before
    /\ "data.bottlenecks_file" \in DOMAIN files
    /\ "data.staffing_file" \notin DOMAIN files
    /\ wk[1].failures[1].error.run_first = "analyze"
    /\ wk[1].exit = "1"

\* What holds of run_all at every moment.
C25_Safe ==
    wk[1].command = "all" =>
        /\ \A k \in 1..Len(wk[1].started) : wk[1].started[k] = RunOrder[k]
        /\ wk[1].missing = {}
        /\ \A k \in 1..Len(wk[1].failures) :
               wk[1].failures[k].error.raised # "FileNotFoundError"
        /\ wk[1].failures # <<>> =>
               /\ Len(wk[1].failures) = 1
               /\ LastStageRaised
               /\ pc \in {"except", "exited"}
        /\ pc = "exited" =>
               /\ wk[1].failures # <<>> => wk[1].exit = "1"
               /\ wk[1].failures = <<>> =>
                      /\ wk[1].started = RunOrder
                      /\ wk[1].exit = "0"

\* C25. run_all runs the stages in the order generate, preprocess, analyze,
\* bottlenecks, recommend, report, each started only when the output files
\* of the stages before it exist, so none meets a missing input; once a
\* stage raises no later stage runs, and the process then exits with
\* status 1.
C25_RunAllOrder ==
    /\ []C25_Safe
    /\ (wk[1].command = "all" /\ wk[1].failures # <<>>) ~> (wk[1].exit = "1")

\* run_all stopped by recommend after four stages saved their files.
C25_Witness ==
    /\ pc = "exited"
    /\ wk[1].command = "all"
    /\ wk[1].started
           = <<"generate", "preprocess", "analyze", "bottlenecks", "recommend">>
    /\ wk[1].failures # <<>>
    /\ wk[1].exit = "1"
    /\ "data.bottlenecks_file" \in DOMAIN files
    /\ files["data.step_hourly_file"] = "this run"

(***************************************************************************)
(* Degenerate input (specification SpecDegenerate): generate_fc_data with  *)
(* horizons of zero days and empty step lists, with zero capacity, zero    *)
(* uph and zero demand, followed by the aggregator and the recommender.    *)
(* The draws are the stream's values, as in the seeded generation above.   *)
(***************************************************************************)
\* np.random.choice(a, size, replace=False) (line 45) raises ValueError for
\* an empty population unless no sample is taken, and for a sample larger
\* than the population
ChoiceRaises(a, size) == (a = 0 /\ size # 0) \/ size > a

\* pd.concat(objs) (line 227) raises ValueError("No objects to concatenate")
\* for an empty list
ConcatRaises(objs) == objs = <<>>

\* capacity_units (lines 124-131) with step_capacity_base 0 or 1 and the
\* draws z, u: base_capacity = step_demand.mean() * step_capacity_base
BaseCapacity(step_capacity_base, step_demand, z, u) ==
    IF step_capacity_base = 0 THEN [i \in 1..Len(step_demand) |-> 0]
    ELSE DrawnCapacity(step_demand, z, u)

\* Configurations explored.
DegenerateParams ==
    {[threshold_util |-> Q(19, 20, 0),
      service_target |-> [num |-> 19, den |-> 20],
      uph_by_step    |-> [s \in StepNames |-> uph],
      wage_per_hour  |-> 25,
      random_state   |-> rs,
      num_days       |-> nd,
      promo_days     |-> pd,
      step_capacity_base |-> cb] :
        uph \in {0, 1}, rs \in {0, 1, 42}, nd \in {0, 1}, pd \in {0, 1},
        cb \in {0, 1}}

InitDegenerate ==
    /\ pc = "generate_hourly_demand"
    /\ params \in DegenerateParams
    /\ steps \in {<<>>, <<"receive">>, <<"receive", "pick">>}
    /\ num_hours = HoursPerDay * params.num_days
    /\ demand_df = <<>>
    /\ all_data = <<>>
    /\ sim_trace = <<>>
    /\ raw = NoTable
    /\ svc = NoTable
    /\ hourly = NoTable
    /\ bottlenecks = NoTable
    /\ staffing = NoTable
    /\ tbl = NoTable
    /\ frames = <<>>
    /\ files = <<>>
    /\ hashseed = [p \in {1} |-> 0]
    /\ rng = [p \in {1} |-> [seed |-> 0, pos |-> 0]]
    /\ wk = [w \in {1} |-> [raised |-> "none", at |-> "none"]]

\* generate_fc_data lines 197-206: generate_hourly_demand; the promo draw
\* may raise, otherwise one demand value per hour is drawn
DegenerateHourlyDemand ==
    /\ pc = "generate_hourly_demand"
    /\ IF ChoiceRaises(params.num_days, params.promo_days)
       THEN /\ wk' = [wk EXCEPT ![1] = [raised |-> "ValueError",
                                        at |-> "np.random.choice"]]
            /\ pc' = "raised"
            /\ UNCHANGED <<demand_df, rng>>
       ELSE /\ demand_df' = DrawN([seed |-> params.random_state, pos |-> 1],
                                  num_hours)
            /\ rng' = [rng EXCEPT ![1] = [seed |-> params.random_state,
                                          pos |-> 1 + num_hours]]
            /\ pc' = "generate_step_data"
            /\ UNCHANGED wk
    /\ UNCHANGED <<steps, num_hours, all_data, sim_trace, raw, hourly, svc,
                   bottlenecks, staffing, tbl, params, hashseed, frames,
                   files>>

\* generate_fc_data lines 210-224: generate_step_data for the next step
DegenerateStepData ==
    /\ pc = "generate_step_data"
    /\ Len(all_data) < Len(steps)
    /\ LET step == steps[Len(all_data) + 1]
           r0   == [seed |-> StepSeed(params.random_state, step, hashseed[1]),
                    pos |-> 0]
           r1   == IF step = "receive" THEN r0 ELSE Advance(r0, num_hours)
           sd   == IF step = "receive" THEN demand_df
                   ELSE NoisyStepDemand(step, demand_df, DrawN(r0, num_hours))
           cap  == BaseCapacity(params.step_capacity_base, sd,
                       DrawN(r1, num_hours),
                       DrawN(Advance(r1, num_hours), num_hours))
       IN  /\ all_data' = Append(all_data,
                  StepTable(step, params.uph_by_step[step], sd, cap))
           /\ rng' = [rng EXCEPT ![1] = Advance(r1, 2 * num_hours)]
    /\ UNCHANGED <<pc, steps, num_hours, demand_df, sim_trace, raw, hourly,
                   svc, bottlenecks, staffing, tbl, params, hashseed, wk,
                   frames, files>>

\* generate_fc_data lines 226-232: concat, which may raise, sort, return
DegenerateConcat ==
    /\ pc = "generate_step_data"
    /\ Len(all_data) = Len(steps)
    /\ IF ConcatRaises(all_data)
       THEN /\ wk' = [wk EXCEPT ![1] = [raised |-> "ValueError",
                                        at |-> "pd.concat"]]
            /\ pc' = "raised"
            /\ UNCHANGED raw
       ELSE /\ raw' = SortValues(Concat(all_data), "timestamp,step")
            /\ pc' = "generated"
            /\ UNCHANGED wk
    /\ UNCHANGED <<steps, num_hours, demand_df, all_data, sim_trace, hourly,
                   svc, bottlenecks, staffing, tbl, params, rng, hashseed,
                   frames, files>>

\* The aggregator and the recommender on a table with records: every
\* division is by a denominator plus 1e-6 (or clipped to at least 1e-6).
DegenerateAnalyze ==
    /\ pc = "generated"
    /\ raw # <<>>
    /\ svc' = compute_service_level(compute_utilization(raw))
    /\ hourly' = aggregate_hourly_metrics(svc')
    /\ staffing' = compute_staffing_recommendations(hourly',
                       params.service_target, params.uph_by_step,
                       params.wage_per_hour)
    /\ pc' = "analyzed"
    /\ UNCHANGED <<steps, num_hours, demand_df, all_data, sim_trace, raw,
                   bottlenecks, tbl, params, rng, hashseed, wk, frames,
                   files>>

NextDegenerate ==
    \/ DegenerateHourlyDemand
    \/ DegenerateStepData
    \/ DegenerateConcat
    \/ DegenerateAnalyze

SpecDegenerate == InitDegenerate /\ [][NextDegenerate]_vars

\* C24. Degenerate input is guarded, not raised: generate_fc_data with a
\* horizon of zero days or with an empty step list completes without
\* raising, and every record computed from a zero denominator (capacity 0,
\* uph 0, total demand 0) has its quotients defined.
C24_DegenerateCompletes ==
    /\ (params.num_days = 0 \/ steps = <<>>) => pc # "raised"
    /\ \A i \in 1..Len(svc) :
           /\ QDen(svc[i].utilization) > 0
           /\ QDen(svc[i].service_level_hourly) > 0
    /\ \A i \in 1..Len(staffing) : QDen(staffing[i].required_labor_hours) > 0

============================================================================
